---- MODULE Spec2Model ----
(***************************************************************************)
(* Snapshot cache, query resolver and mutation facade of the PDFDancer     *)
(* Python client (src/src/pdfdancer/pdfdancer_v1.py).                      *)
(*                                                                         *)
(* One client session is modelled in sequential use.  Every action is one  *)
(* call of a client method, run to completion, together with the server's  *)
(* answers to the requests the call sends.  The server is the environment: *)
(* it answers a request or fails it, and a mutation it accepts replaces    *)
(* its document by another one.                                            *)
(*                                                                         *)
(* Python's None is the empty sequence <<>>, a present value v is <<v>>.   *)
(* Lengths (rectangles, tolerance) are integers in 1/1000 point.           *)
(***************************************************************************)
EXTENDS Integers, Sequences, FiniteSets, TLC

\* ------------------------------------------------------------------ bounds
\* most pages a server document has
MaxPages == 2
\* most mutations the server accepts in one run
MaxMutations == 2

\* ------------------------------------------------------- program constants
\* DEFAULT_TOLERANCE = 0.01 point
DEFAULT_TOLERANCE == 10

\* --------------------------------------------------------------- optionals
None == <<>>
Some(v) == <<v>>
IsNone(o) == o = <<>>
IsSome(o) == o # <<>>
Get(o) == o[1]

\* ------------------------------------------------------------ domain model
\* ObjectType, the closed enumeration of object-type tags
ObjectType ==
    {"PAGE", "PARAGRAPH", "TEXT_LINE", "IMAGE", "PATH", "FORM",
     "FORM_FIELD", "TEXT_FIELD", "CHECK_BOX", "RADIO_BUTTON"}

\* BoundingRect(x, y, width, height)
BoundingRect(x, y, w, h) == [x |-> x, y |-> y, width |-> w, height |-> h]

\* Position(): every field absent
EmptyPosition ==
    [page_index |-> None, bounding_rect |-> None, text_starts_with |-> None,
     text_pattern |-> None, name |-> None]

\* Position.at_page(page_index)
AtPage(i) == [EmptyPosition EXCEPT !.page_index = Some(i)]

\* Position.at_page_coordinates(page_index, x, y): a point rectangle on a page
AtPageCoordinates(i, x, y) ==
    [EmptyPosition EXCEPT !.page_index = Some(i),
                          !.bounding_rect = Some(BoundingRect(x, y, 0, 0))]

\* Position.by_name(name)
ByName(n) == [EmptyPosition EXCEPT !.name = Some(n)]

\* Position.with_text_starts(text) on a page position
WithTextStarts(p, t) == [p EXCEPT !.text_starts_with = Some(t)]

\* the class an element is parsed into, chosen by its type tag
ElementClass(type) ==
    IF type \in {"PARAGRAPH", "TEXT_LINE"} THEN "TextObjectRef"
    ELSE IF type \in {"FORM_FIELD", "TEXT_FIELD", "CHECK_BOX", "RADIO_BUTTON"}
         THEN "FormFieldRef"
         ELSE "ObjectRef"

\* one element of a page snapshot (ObjectRef / TextObjectRef / FormFieldRef)
Element(id, type, rect, text, name) ==
    [internal_id |-> id, type |-> type, cls |-> ElementClass(type),
     bounding_rect |-> rect, text |-> text, name |-> name, value |-> None,
     children |-> <<>>]

\* ------------------------------------------------- the server's documents
ParaHello ==
    Element("PARAGRAPH_000001", "PARAGRAPH",
            Some(BoundingRect(10005, 9995, 5000, 5000)),
            Some(<<"H", "e", "l">>), None)
ParaGoodbye ==
    Element("PARAGRAPH_000002", "PARAGRAPH",
            Some(BoundingRect(50000, 50000, 5000, 5000)),
            Some(<<"G", "o">>), None)
PathShape ==
    Element("PATH_000001", "PATH",
            Some(BoundingRect(10000, 10000, 2000, 2000)), None, None)
FirstName ==
    Element("FORM_FIELD_000001", "TEXT_FIELD",
            Some(BoundingRect(50000, 50000, 5000, 5000)), None, Some("firstName"))
Agree ==
    Element("FORM_FIELD_000002", "CHECK_BOX", None, None, Some("agree"))

\* the element lists a page of the server's document may have
PageContents == { <<ParaHello, PathShape, FirstName>>, <<ParaGoodbye, Agree>> }

\* the documents the server may hold: 1..MaxPages pages, whose element lists
\* alternate, starting with either one
Docs ==
    {[k \in 1 .. n |-> IF k % 2 = 1 THEN first ELSE CHOOSE other \in PageContents : other # first] :
        n \in 1 .. MaxPages, first \in PageContents}

\* the page indices a caller passes: negative, and the pages a document may have
PageIndices == -1 .. (MaxPages - 1)

\* ------------------------------------------------------------------- state
VARIABLES
    document_snapshot,  \* PDFDancer._document_snapshot: None or a DocumentSnapshot
    page_snapshots,     \* PDFDancer._page_snapshots: dict page index -> PageSnapshot
    serverDoc,          \* the document the server holds now (its pages' elements)
    serverVersion,      \* how many mutations the server has accepted
    lastOp              \* the client call that completed last, and what it did

vars == <<document_snapshot, page_snapshots, serverDoc, serverVersion, lastOp>>

\* the two cache slots, as one value
Cache == [document_snapshot |-> document_snapshot, page_snapshots |-> page_snapshots]

EmptyCache == [document_snapshot |-> None, page_snapshots |-> <<>>]

\* ---------------------------------------------------------- snapshot fetch
\* Identity of a snapshot object: the payload it was parsed from (a "document"
\* or a "page" answer, read at a document version) and, for a page snapshot, its
\* place in that payload (-1 for the document snapshot itself).
SnapshotId(origin, version, page) == [origin |-> origin, version |-> version, page |-> page]

\* the PageSnapshot parsed from the server's answer for page i: its elements are
\* the server's current ones; version records which document it was read from
ServerPageSnapshot(origin, i) ==
    [id |-> SnapshotId(origin, serverVersion, i), version |-> serverVersion,
     page_index |-> i, elements |-> serverDoc[i + 1]]

\* the DocumentSnapshot parsed from the server's answer
ServerDocumentSnapshot ==
    [id |-> SnapshotId("document", serverVersion, -1), version |-> serverVersion,
     page_count |-> Len(serverDoc),
     pages |-> [k \in 1 .. Len(serverDoc) |-> ServerPageSnapshot("document", k - 1)]]

\* what a call hands back: the cache it leaves, the exception it raised ("" for
\* none), the value it returned and the requests it sent
Outcome(c, raised, value, requests) ==
    [cache |-> c, raised |-> raised, value |-> value, requests |-> requests]

\* get_document_snapshot(): one GET; the server answers (ok) or the request fails
GetDocumentSnapshot(c, ok) ==
    IF ok
    THEN Outcome(c, "", Some(ServerDocumentSnapshot),
                 <<"GET /pdf/document/snapshot">>)
    ELSE Outcome(c, "HttpClientException", None, <<"GET /pdf/document/snapshot">>)

\* get_page_snapshot(page_index): a negative index is rejected before the request
GetPageSnapshot(c, page_index, ok) ==
    IF page_index < 0
    THEN Outcome(c, "ValidationException", None, <<>>)
    ELSE IF ok
         THEN Outcome(c, "", Some(ServerPageSnapshot("page", page_index)),
                      <<"GET /pdf/page/snapshot">>)
         ELSE Outcome(c, "HttpClientException", None, <<"GET /pdf/page/snapshot">>)

\* the server can answer a page-snapshot request only for a page it has
PageAnswers(page_index) ==
    IF page_index >= 0 /\ page_index < Len(serverDoc) THEN BOOLEAN ELSE {FALSE}

\* ------------------------------------------------------------ snapshot cache
\* a fill that writes every page of the document snapshot over the page slots
FillAllPages(pages, doc) ==
    [i \in DOMAIN pages \cup {k - 1 : k \in DOMAIN doc.pages} |->
        IF i + 1 \in DOMAIN doc.pages THEN doc.pages[i + 1] ELSE pages[i]]

\* the document fetch fills the page slots that are not present yet
FillMissingPages(pages, doc) ==
    [i \in DOMAIN pages \cup {k - 1 : k \in DOMAIN doc.pages} |->
        IF i \in DOMAIN pages THEN pages[i] ELSE doc.pages[i + 1]]

\* a document lookup that drops the page slots when its fetch fails
GetOrFetchDocumentSnapshotDroppingOnFailure(c, ok) ==
    IF IsNone(c.document_snapshot)
    THEN LET got == GetDocumentSnapshot(c, ok)
         IN  IF got.raised # ""
             THEN Outcome(EmptyCache, got.raised, None, got.requests)
             ELSE Outcome([document_snapshot |-> got.value,
                           page_snapshots |->
                               FillMissingPages(c.page_snapshots, Get(got.value))],
                          "", got.value, got.requests)
    ELSE Outcome(c, "", c.document_snapshot, <<>>)

\* a document lookup that returns what it fetched without keeping it
GetOrFetchDocumentSnapshotNotStoring(c, ok) ==
    IF IsNone(c.document_snapshot)
    THEN GetDocumentSnapshot(c, ok)
    ELSE Outcome(c, "", c.document_snapshot, <<>>)

\* _get_or_fetch_document_snapshot()
GetOrFetchDocumentSnapshot(c, ok) ==
    IF IsNone(c.document_snapshot)
    THEN LET got == GetDocumentSnapshot(c, ok)
         IN  IF got.raised # ""
             THEN got
             ELSE Outcome([document_snapshot |-> got.value,
                           page_snapshots |->
                               FillMissingPages(c.page_snapshots, Get(got.value))],
                          "", got.value, got.requests)
    ELSE Outcome(c, "", c.document_snapshot, <<>>)

\* dict assignment d[k] = v
Put(d, k, v) == [i \in DOMAIN d \cup {k} |-> IF i = k THEN v ELSE d[i]]

\* a page lookup that never consults the cached document snapshot
GetOrFetchPageSnapshotIgnoringDocument(c, page_index, ok) ==
    IF page_index \in DOMAIN c.page_snapshots
    THEN Outcome(c, "", Some(c.page_snapshots[page_index]), <<>>)
    ELSE LET got == GetPageSnapshot(c, page_index, ok)
         IN  IF got.raised # ""
             THEN got
             ELSE Outcome([c EXCEPT !.page_snapshots =
                                        Put(@, page_index, Get(got.value))],
                          "", got.value, got.requests)

\* a page lookup that returns the fetched page snapshot without storing it
GetOrFetchPageSnapshotNotStoring(c, page_index, ok) ==
    IF page_index \in DOMAIN c.page_snapshots
    THEN Outcome(c, "", Some(c.page_snapshots[page_index]), <<>>)
    ELSE IF /\ IsSome(c.document_snapshot)
            /\ 0 <= page_index
            /\ page_index < Len(Get(c.document_snapshot).pages)
         THEN LET page_snapshot == Get(c.document_snapshot).pages[page_index + 1]
              IN  Outcome([c EXCEPT !.page_snapshots = Put(@, page_index, page_snapshot)],
                          "", Some(page_snapshot), <<>>)
         ELSE GetPageSnapshot(c, page_index, ok)

\* a page lookup that fetches whenever the document snapshot cannot serve it,
\* replacing a populated page slot
GetOrFetchPageSnapshotRefetching(c, page_index, ok) ==
    IF /\ IsSome(c.document_snapshot)
       /\ 0 <= page_index
       /\ page_index < Len(Get(c.document_snapshot).pages)
    THEN LET page_snapshot == Get(c.document_snapshot).pages[page_index + 1]
         IN  Outcome([c EXCEPT !.page_snapshots = Put(@, page_index, page_snapshot)],
                     "", Some(page_snapshot), <<>>)
    ELSE LET got == GetPageSnapshot(c, page_index, ok)
         IN  IF got.raised # ""
             THEN got
             ELSE Outcome([c EXCEPT !.page_snapshots =
                                        Put(@, page_index, Get(got.value))],
                          "", got.value, got.requests)

\* _get_or_fetch_page_snapshot(page_index)
GetOrFetchPageSnapshot(c, page_index, ok) ==
    IF page_index \in DOMAIN c.page_snapshots
    THEN Outcome(c, "", Some(c.page_snapshots[page_index]), <<>>)
    ELSE IF /\ IsSome(c.document_snapshot)
            /\ 0 <= page_index
            /\ page_index < Len(Get(c.document_snapshot).pages)
         THEN LET page_snapshot == Get(c.document_snapshot).pages[page_index + 1]
              IN  Outcome([c EXCEPT !.page_snapshots = Put(@, page_index, page_snapshot)],
                          "", Some(page_snapshot), <<>>)
         ELSE LET got == GetPageSnapshot(c, page_index, ok)
              IN  IF got.raised # ""
                  THEN got
                  ELSE Outcome([c EXCEPT !.page_snapshots =
                                             Put(@, page_index, Get(got.value))],
                               "", got.value, got.requests)

\* an invalidation that forgets the page map: self._page_snapshots.clear() left out
InvalidateDocumentOnly(c) == [c EXCEPT !.document_snapshot = None]

\* an invalidation that clears the page slots and keeps the document snapshot
InvalidatePagesOnly(c) == [c EXCEPT !.page_snapshots = <<>>]

\* _invalidate_snapshots()
InvalidateSnapshots(c) == [document_snapshot |-> None, page_snapshots |-> <<>>]

\* ------------------------------------------------------ client-side filter
\* str.lower() on one character of the texts used here
LowerChar(ch) ==
    CASE ch = "H" -> "h"
      [] ch = "G" -> "g"
      [] ch = "W" -> "w"
      [] OTHER -> ch

\* a lower() that leaves the case as it is
LowerKeepingCase(text) == text

\* str.lower()
Lower(text) == [k \in 1 .. Len(text) |-> LowerChar(text[k])]

\* str.startswith(prefix)
StartsWith(text, prefix) ==
    /\ Len(prefix) <= Len(text)
    /\ SubSeq(text, 1, Len(prefix)) = prefix

\* pattern.search(text) for a pattern of literal characters: an unanchored match
Search(pattern, text) ==
    \E k \in 0 .. (Len(text) - Len(pattern)) :
        SubSeq(text, k + 1, k + Len(pattern)) = pattern

\* truth value of an optional string: None and "" are falsy
TruthyText(o) == IsSome(o) /\ Len(Get(o)) > 0

\* a name test that never finds a name in the query
TruthyNameNever(o) == FALSE

\* truth value of an optional name
TruthyName(o) == IsSome(o) /\ Get(o) # ""

\* an overlap test that does not expand the rectangles
RectsIntersectExactly(rect1, rect2, tolerance) ==
    IF rect1.x + rect1.width < rect2.x \/ rect2.x + rect2.width < rect1.x THEN FALSE
    ELSE IF rect1.y + rect1.height < rect2.y \/ rect2.y + rect2.height < rect1.y THEN FALSE
    ELSE TRUE

\* an overlap test in which expanded rectangles that only touch do not intersect
RectsIntersectApart(rect1, rect2, tolerance) ==
    LET r1_left   == rect1.x - tolerance
        r1_right  == rect1.x + rect1.width + tolerance
        r1_top    == rect1.y - tolerance
        r1_bottom == rect1.y + rect1.height + tolerance
        r2_left   == rect2.x - tolerance
        r2_right  == rect2.x + rect2.width + tolerance
        r2_top    == rect2.y - tolerance
        r2_bottom == rect2.y + rect2.height + tolerance
    IN  IF r1_right <= r2_left \/ r2_right <= r1_left THEN FALSE
        ELSE IF r1_bottom <= r2_top \/ r2_bottom <= r1_top THEN FALSE
        ELSE TRUE

\* _rects_intersect(rect1, rect2, tolerance)
RectsIntersect(rect1, rect2, tolerance) ==
    LET r1_left   == rect1.x - tolerance
        r1_right  == rect1.x + rect1.width + tolerance
        r1_top    == rect1.y - tolerance
        r1_bottom == rect1.y + rect1.height + tolerance
        r2_left   == rect2.x - tolerance
        r2_right  == rect2.x + rect2.width + tolerance
        r2_top    == rect2.y - tolerance
        r2_bottom == rect2.y + rect2.height + tolerance
    IN  IF r1_right < r2_left \/ r2_right < r1_left THEN FALSE
        ELSE IF r1_bottom < r2_top \/ r2_bottom < r1_top THEN FALSE
        ELSE TRUE

\* the form-field types a FORM_FIELD query matches
FormFieldTypes == {"FORM_FIELD", "TEXT_FIELD", "CHECK_BOX", "RADIO_BUTTON"}

\* a type filter without the form-field supertype: the tag must be the type asked
TypeMatchesExactly(e, object_type) == object_type = Some(e.type)

\* stage 1 of the filter: the object type (object_type None matches no e.type)
TypeMatches(e, object_type) ==
    IF object_type = Some("FORM_FIELD")
    THEN e.type \in FormFieldTypes
    ELSE object_type = Some(e.type)

\* _filter_snapshot_elements(elements, object_type, position, tolerance)
FilterSnapshotElements(elements, object_type, position, tolerance) ==
    LET filtered == SelectSeq(elements, LAMBDA e : TypeMatches(e, object_type))
    IN  IF IsNone(position) THEN filtered
        ELSE
        LET pos == Get(position)
            starts ==
                IF TruthyText(pos.text_starts_with)
                THEN SelectSeq(filtered, LAMBDA e :
                        /\ e.cls = "TextObjectRef"
                        /\ TruthyText(e.text)
                        /\ StartsWith(Lower(Get(e.text)), Lower(Get(pos.text_starts_with))))
                ELSE filtered
            matching ==
                IF TruthyText(pos.text_pattern)
                THEN SelectSeq(starts, LAMBDA e :
                        /\ e.cls = "TextObjectRef"
                        /\ TruthyText(e.text)
                        /\ Search(Get(pos.text_pattern), Get(e.text)))
                ELSE starts
            inside ==
                IF IsSome(pos.bounding_rect)
                THEN SelectSeq(matching, LAMBDA e :
                        /\ IsSome(e.bounding_rect)
                        /\ RectsIntersect(Get(e.bounding_rect), Get(pos.bounding_rect),
                                          tolerance))
                ELSE matching
            named ==
                IF TruthyName(pos.name)
                THEN SelectSeq(inside, LAMBDA e :
                        e.cls = "FormFieldRef" /\ e.name = pos.name)
                ELSE inside
        IN  named

RECURSIVE AllElements(_)
\* a concatenation that puts the last page's elements first
AllElementsLastPageFirst(pages) ==
    IF Len(pages) = 0 THEN <<>>
    ELSE pages[Len(pages)].elements \o AllElements(SubSeq(pages, 1, Len(pages) - 1))

\* all_elements: every page's elements, in page order
AllElements(pages) ==
    IF Len(pages) = 0 THEN <<>>
    ELSE AllElements(SubSeq(pages, 1, Len(pages) - 1)) \o pages[Len(pages)].elements

\* ------------------------------------------------------------ call results
\* what a completed client call did: the cache it leaves, the exception it
\* raised ("" for a normal return), the requests it sent in order, how often it
\* called _invalidate_snapshots, and what it returned:
\*   truthy    the truth value of a returned bool / object
\*   success   the server's answer reports the mutation done (bool True, a
\*             CommandResult with success, a new page reference)
\*   elements  the returned list of object references
\*   versions  the document versions the returned data was read from
\*   snapshot  the identity of the snapshot the call consulted
Done(c, raised, requests, invalidations, ret) ==
    [cache |-> c, raised |-> raised, requests |-> requests,
     invalidations |-> invalidations, truthy |-> ret.truthy, success |-> ret.success,
     elements |-> ret.elements, versions |-> ret.versions, snapshot |-> ret.snapshot]

NoReturn ==
    [truthy |-> FALSE, success |-> FALSE, elements |-> <<>>, versions |-> {},
     snapshot |-> None]

\* a returned bool
ReturnBool(b) == [NoReturn EXCEPT !.truthy = b, !.success = b]

\* a returned CommandResult parsed from the server's answer: an object (truthy)
\* carrying success
ReturnCommandResult(ok) == [NoReturn EXCEPT !.truthy = TRUE, !.success = ok]

\* CommandResult.empty(...): built by the client, no answer of the server
EmptyCommandResult == [NoReturn EXCEPT !.truthy = TRUE]

\* a returned list of elements read from a snapshot
ReturnElements(elements, snapshot) ==
    [NoReturn EXCEPT !.truthy = Len(elements) > 0, !.elements = elements,
                     !.versions = {snapshot.version}, !.snapshot = Some(snapshot.id)]

\* _make_request(method, path) and response.json() for an endpoint answering a
\* bool: the server answers "true" or "false", the request fails ("raise"), or
\* the server answers with status 401 or 403 ("unauthorized"), which
\* _handle_authentication_error turns into a ValidationException
MakeRequest(endpoint, answer) ==
    [raised |-> IF answer = "raise" THEN "HttpClientException"
                ELSE IF answer = "unauthorized" THEN "ValidationException"
                ELSE "",
     requests |-> <<endpoint>>,
     json |-> answer = "true"]

\* --------------------------------------------------------------- the server
\* the server's answer to POST /pdf/find: the objects of the type on the page
\* (or in the document) whose rectangle meets the position's rectangle
ServerFind(object_type, position) ==
    LET pos == Get(position)
        source ==
            IF IsNone(pos.page_index)
            THEN AllElements([k \in 1 .. Len(serverDoc) |-> [elements |-> serverDoc[k]]])
            ELSE IF Get(pos.page_index) >= 0 /\ Get(pos.page_index) < Len(serverDoc)
                 THEN serverDoc[Get(pos.page_index) + 1]
                 ELSE <<>>
    IN  SelectSeq(source, LAMBDA e :
            /\ object_type = Some(e.type)
            /\ IsSome(e.bounding_rect)
            /\ RectsIntersect(Get(e.bounding_rect), Get(pos.bounding_rect),
                              DEFAULT_TOLERANCE))

\* -------------------------------------------------------------- query resolver
\* a resolver that serves every query, page-scoped or not, from the document
\* snapshot
FindInSnapshotsThroughDocument(c, object_type, position, tolerance, ok) ==
    LET got == GetOrFetchDocumentSnapshot(c, ok)
    IN  IF got.raised # ""
        THEN Done(got.cache, got.raised, got.requests, 0, NoReturn)
        ELSE Done(got.cache, "", got.requests, 0,
                  ReturnElements(
                      FilterSnapshotElements(AllElements(Get(got.value).pages),
                                             object_type, position, tolerance),
                      Get(got.value)))

\* the cache-served part of _find, which is also the whole body of
\* _find_paragraphs, _find_text_lines, _find_images, _find_form_x_objects and
\* _find_form_fields with their fixed object type
FindInSnapshots(c, object_type, position, tolerance, ok) ==
    IF IsSome(position) /\ IsSome(Get(position).page_index)
    THEN LET got == GetOrFetchPageSnapshot(c, Get(Get(position).page_index), ok)
         IN  IF got.raised # ""
             THEN Done(got.cache, got.raised, got.requests, 0, NoReturn)
             ELSE Done(got.cache, "", got.requests, 0,
                       ReturnElements(
                           FilterSnapshotElements(Get(got.value).elements, object_type,
                                                  position, tolerance),
                           Get(got.value)))
    ELSE LET got == GetOrFetchDocumentSnapshot(c, ok)
         IN  IF got.raised # ""
             THEN Done(got.cache, got.raised, got.requests, 0, NoReturn)
             ELSE Done(got.cache, "", got.requests, 0,
                       ReturnElements(
                           FilterSnapshotElements(AllElements(Get(got.value).pages),
                                                  object_type, position, tolerance),
                           Get(got.value)))

\* the PATH query with a bounding rectangle, which _find sends to the server
IsPathBypass(object_type, position) ==
    /\ object_type = Some("PATH")
    /\ IsSome(position)
    /\ IsSome(Get(position).bounding_rect)

\* a _find without the PATH branch: every query is resolved from snapshots
FindObjectsFromSnapshots(c, object_type, position, tolerance, ok) ==
    FindInSnapshots(c, object_type, position, tolerance, ok)

\* _find(object_type, position, tolerance)
FindObjects(c, object_type, position, tolerance, ok) ==
    IF IsPathBypass(object_type, position)
    THEN IF ok
         THEN LET objects == ServerFind(object_type, position)
              IN  Done(c, "", <<"POST /pdf/find">>, 0,
                       [NoReturn EXCEPT !.elements = objects,
                                        !.truthy = Len(objects) > 0,
                                        !.versions = {serverVersion}])
         ELSE Done(c, "HttpClientException", <<"POST /pdf/find">>, 0, NoReturn)
    ELSE FindInSnapshots(c, object_type, position, tolerance, ok)

\* _find_paths(position, tolerance)
FindPaths(c, position, tolerance, ok) ==
    IF IsSome(position) /\ IsSome(Get(position).bounding_rect)
    THEN FindObjects(c, Some("PATH"), position, tolerance, ok)
    ELSE FindInSnapshots(c, Some("PATH"), position, tolerance, ok)

\* -------------------------------------------------------------- mutation facade
\* a _delete that invalidates whatever the server answered
DeleteObjectAlwaysInvalidating(c, object_ref, answer) ==
    IF IsNone(object_ref)
    THEN Done(c, "ValidationException", <<>>, 0, NoReturn)
    ELSE LET response == MakeRequest("DELETE /pdf/delete", answer)
         IN  IF response.raised # ""
             THEN Done(c, response.raised, response.requests, 0, NoReturn)
             ELSE Done(InvalidateSnapshots(c), "", response.requests, 1,
                       ReturnBool(response.json))

\* _delete(object_ref)
DeleteObject(c, object_ref, answer) ==
    IF IsNone(object_ref)
    THEN Done(c, "ValidationException", <<>>, 0, NoReturn)
    ELSE LET response == MakeRequest("DELETE /pdf/delete", answer)
             result == response.json
         IN  IF response.raised # ""
             THEN Done(c, response.raised, response.requests, 0, NoReturn)
             ELSE IF result
                  THEN Done(InvalidateSnapshots(c), "", response.requests, 1,
                            ReturnBool(result))
                  ELSE Done(c, "", response.requests, 0, ReturnBool(result))

\* _delete_page(page_ref)
DeletePage(c, page_ref, answer) ==
    IF IsNone(page_ref)
    THEN Done(c, "ValidationException", <<>>, 0, NoReturn)
    ELSE LET response == MakeRequest("DELETE /pdf/page/delete", answer)
             result == response.json
         IN  IF response.raised # ""
             THEN Done(c, response.raised, response.requests, 0, NoReturn)
             ELSE IF result
                  THEN Done(InvalidateSnapshots(c), "", response.requests, 1,
                            ReturnBool(result))
                  ELSE Done(c, "", response.requests, 0, ReturnBool(result))

\* a _move_page that invalidates before the request and again after success
MovePageInvalidatingTwice(c, from_page_index, to_page_index, answer) ==
    IF \E value \in {from_page_index, to_page_index} : IsNone(value) \/ Get(value) < 0
    THEN Done(c, "ValidationException", <<>>, 0, NoReturn)
    ELSE LET response == MakeRequest("PUT /pdf/page/move", answer)
             result == response.json
         IN  IF response.raised # ""
             THEN Done(InvalidateSnapshots(c), response.raised, response.requests, 1,
                       NoReturn)
             ELSE IF result
                  THEN Done(InvalidateSnapshots(c), "", response.requests, 2,
                            ReturnBool(result))
                  ELSE Done(InvalidateSnapshots(c), "", response.requests, 1,
                            ReturnBool(result))

\* _move_page(from_page_index, to_page_index); move_page is the same call
MovePage(c, from_page_index, to_page_index, answer) ==
    IF \E value \in {from_page_index, to_page_index} : IsNone(value) \/ Get(value) < 0
    THEN Done(c, "ValidationException", <<>>, 0, NoReturn)
    ELSE LET response == MakeRequest("PUT /pdf/page/move", answer)
             result == response.json
         IN  IF response.raised # ""
             THEN Done(c, response.raised, response.requests, 0, NoReturn)
             ELSE IF result
                  THEN Done(InvalidateSnapshots(c), "", response.requests, 1,
                            ReturnBool(result))
                  ELSE Done(c, "", response.requests, 0, ReturnBool(result))

\* a _move that never invalidates
MoveObjectKeepingCache(c, object_ref, position, answer) ==
    IF IsNone(object_ref) \/ IsNone(position)
    THEN Done(c, "ValidationException", <<>>, 0, NoReturn)
    ELSE LET response == MakeRequest("PUT /pdf/move", answer)
         IN  IF response.raised # ""
             THEN Done(c, response.raised, response.requests, 0, NoReturn)
             ELSE Done(c, "", response.requests, 0, ReturnBool(response.json))

\* _move(object_ref, position)
MoveObject(c, object_ref, position, answer) ==
    IF IsNone(object_ref) \/ IsNone(position)
    THEN Done(c, "ValidationException", <<>>, 0, NoReturn)
    ELSE LET response == MakeRequest("PUT /pdf/move", answer)
             result == response.json
         IN  IF response.raised # ""
             THEN Done(c, response.raised, response.requests, 0, NoReturn)
             ELSE IF result
                  THEN Done(InvalidateSnapshots(c), "", response.requests, 1,
                            ReturnBool(result))
                  ELSE Done(c, "", response.requests, 0, ReturnBool(result))

\* _add_object(pdf_object)
AddObject(c, answer) ==
    LET response == MakeRequest("POST /pdf/add", answer)
        result == response.json
    IN  IF response.raised # ""
        THEN Done(c, response.raised, response.requests, 0, NoReturn)
        ELSE IF result
             THEN Done(InvalidateSnapshots(c), "", response.requests, 1,
                       ReturnBool(result))
             ELSE Done(c, "", response.requests, 0, ReturnBool(result))

\* _add_image(image, position): image is None or an Image with its position;
\* a position given in the call replaces the image's own
AddImage(c, image, position, answer) ==
    IF IsNone(image)
    THEN Done(c, "ValidationException", <<>>, 0, NoReturn)
    ELSE LET placed == IF IsSome(position) THEN position ELSE Get(image).position
         IN  IF IsNone(placed)
             THEN Done(c, "ValidationException", <<>>, 0, NoReturn)
             ELSE AddObject(c, answer)

\* _add_paragraph(paragraph): paragraph is None or a Paragraph with its position
AddParagraph(c, paragraph, answer) ==
    IF IsNone(paragraph)
    THEN Done(c, "ValidationException", <<>>, 0, NoReturn)
    ELSE IF IsNone(Get(paragraph).position)
    THEN Done(c, "ValidationException", <<>>, 0, NoReturn)
    ELSE IF IsNone(Get(Get(paragraph).position).page_index)
    THEN Done(c, "ValidationException", <<>>, 0, NoReturn)
    ELSE IF Get(Get(Get(paragraph).position).page_index) < 0
    THEN Done(c, "ValidationException", <<>>, 0, NoReturn)
    ELSE AddObject(c, answer)

\* new_page(): the answer is the new page's reference; always invalidates
NewPage(c, answer) ==
    LET response == MakeRequest("POST /pdf/page/add", answer)
    IN  IF response.raised # ""
        THEN Done(c, response.raised, response.requests, 0, NoReturn)
        ELSE Done(InvalidateSnapshots(c), "", response.requests, 1, ReturnBool(TRUE))

\* _modify_paragraph(object_ref, new_paragraph): new_paragraph is "None", a
\* "str" or a "Paragraph"; the answer is a CommandResult with or without success
ModifyParagraph(c, object_ref, new_paragraph, answer) ==
    IF IsNone(object_ref)
    THEN Done(c, "ValidationException", <<>>, 0, NoReturn)
    ELSE IF new_paragraph = "None"
    THEN Done(c, "", <<>>, 0, EmptyCommandResult)
    ELSE LET response ==
                 IF new_paragraph = "str"
                 THEN MakeRequest("PUT /pdf/text/paragraph", answer)
                 ELSE MakeRequest("PUT /pdf/modify", answer)
         IN  IF response.raised # ""
             THEN Done(c, response.raised, response.requests, 0, NoReturn)
             ELSE Done(InvalidateSnapshots(c), "", response.requests, 1,
                       ReturnCommandResult(response.json))

\* a _modify_text_line that keeps the snapshots it has
ModifyTextLineKeepingCache(c, object_ref, new_text, answer) ==
    IF IsNone(object_ref) \/ IsNone(new_text)
    THEN Done(c, "ValidationException", <<>>, 0, NoReturn)
    ELSE LET response == MakeRequest("PUT /pdf/text/line", answer)
         IN  IF response.raised # ""
             THEN Done(c, response.raised, response.requests, 0, NoReturn)
             ELSE Done(c, "", response.requests, 0, ReturnCommandResult(response.json))

\* _modify_text_line(object_ref, new_text)
ModifyTextLine(c, object_ref, new_text, answer) ==
    IF IsNone(object_ref) \/ IsNone(new_text)
    THEN Done(c, "ValidationException", <<>>, 0, NoReturn)
    ELSE LET response == MakeRequest("PUT /pdf/text/line", answer)
         IN  IF response.raised # ""
             THEN Done(c, response.raised, response.requests, 0, NoReturn)
             ELSE Done(InvalidateSnapshots(c), "", response.requests, 1,
                       ReturnCommandResult(response.json))

\* _change_form_field(form_field_ref, new_value): the request runs inside
\* try ... finally: self._invalidate_snapshots()
ChangeFormField(c, form_field_ref, answer) ==
    IF IsNone(form_field_ref)
    THEN Done(c, "ValidationException", <<>>, 0, NoReturn)
    ELSE LET response == MakeRequest("PUT /pdf/modify/formField", answer)
         IN  IF response.raised # ""
             THEN Done(InvalidateSnapshots(c), response.raised, response.requests, 1,
                       NoReturn)
             ELSE Done(InvalidateSnapshots(c), "", response.requests, 1,
                       ReturnBool(response.json))

\* ------------------------------------------------------------------ page client
\* PageClient.from_ref(root, page_ref): page_index and position of the page
PageClientOf(page_index) == [page_index |-> page_index, position |-> AtPage(page_index)]

\* PageClient.move_to(target_page_index), up to the update of the page client
PageClientMoveTo(c, pc, target_page_index, answer) ==
    IF IsNone(target_page_index) \/ Get(target_page_index) < 0
    THEN Done(c, "ValidationException", <<>>, 0, NoReturn)
    ELSE MovePage(c, Some(pc.page_index), target_page_index, answer)

\* a page client that takes the target index whatever the move reported
PageClientMovedRegardless(pc, target_page_index, moved) ==
    IF IsNone(target_page_index) THEN pc
    ELSE [page_index |-> Get(target_page_index),
          position |-> AtPage(Get(target_page_index))]

\* the page client after move_to: updated when the move was reported done
PageClientMoved(pc, target_page_index, moved) ==
    IF moved
    THEN [page_index |-> Get(target_page_index),
          position |-> AtPage(Get(target_page_index))]
    ELSE pc

\* --------------------------------------------------------------------- inputs
\* the object types a caller of find asks for
QueryTypes == {Some("PARAGRAPH"), Some("PATH")}

\* the positions a caller passes (None: no position given): a page, a point on
\* a page, a point in the document
QueryPositions ==
    {None, Some([EmptyPosition EXCEPT !.bounding_rect = Some(BoundingRect(10000, 10000, 0, 0))]),
     Some(AtPageCoordinates(0, 10000, 10000))}
    \cup {Some(AtPage(i)) : i \in PageIndices}

\* an object reference argument: None or a reference
Refs == {None, Some("ref")}

\* the page index pairs a caller passes to move_page
PageMoves ==
    {<<Some(0), Some(1)>>, <<None, Some(1)>>, <<Some(0), None>>,
     <<Some(-1), Some(1)>>, <<Some(0), Some(-1)>>}

\* the targets a caller passes to PageClient.move_to
PageTargets == {None, Some(-1), Some(1)}

\* the images a caller passes to _add_image: None, an image without a position,
\* an image placed on page 0
Images == {None, Some([position |-> None]), Some([position |-> Some(AtPage(0))])}

\* the paragraphs a caller passes to _add_paragraph: None, without a position,
\* with a position that names no page, on page -1, on page 0
Paragraphs ==
    {None, Some([position |-> None]), Some([position |-> Some(EmptyPosition)]),
     Some([position |-> Some(AtPage(-1))]), Some([position |-> Some(AtPage(0))])}

\* the answers the server can give to a mutation request: it accepts at most
\* MaxMutations of them
MutationAnswers ==
    IF serverVersion < MaxMutations THEN {"true", "false", "raise", "unauthorized"}
    ELSE {"false", "raise", "unauthorized"}

\* the answers a mutation call can get: none when it sends no request (r is the
\* call with a failing request)
AnswersTo(r) == IF r.requests # <<>> THEN MutationAnswers ELSE {"none"}

\* --------------------------------------------------------------------- actions
\* the call's record in lastOp: what the call did (see Done) and the page
\* client it was made on or built, as the call leaves it
Record(op, args, r, pc) ==
    [op |-> op, args |-> args, raised |-> r.raised, requests |-> r.requests,
     invalidations |-> r.invalidations, truthy |-> r.truthy, success |-> r.success,
     elements |-> r.elements, versions |-> r.versions, snapshot |-> r.snapshot,
     page_client |-> pc]

\* the call completes: the cache is as the call left it
Complete(op, args, r, pc) ==
    /\ document_snapshot' = r.cache.document_snapshot
    /\ page_snapshots' = r.cache.page_snapshots
    /\ lastOp' = Record(op, args, r, pc)

\* a mutation the server accepted replaces the server's document by one of any
\* page count and other elements
ServerApplies(r, answer) ==
    IF r.requests # <<>> /\ answer = "true"
    THEN /\ serverVersion' = serverVersion + 1
         /\ serverDoc' \in {d \in Docs : d[1] # serverDoc[1]}
    ELSE UNCHANGED <<serverDoc, serverVersion>>

Init ==
    /\ document_snapshot = None
    /\ page_snapshots = <<>>
    /\ serverDoc \in {d \in Docs : d[1][1] = ParaHello}
    /\ serverVersion = 0
    /\ lastOp = [op |-> "open", args |-> <<>>, raised |-> "", requests |-> <<>>,
                 invalidations |-> 0, truthy |-> FALSE, success |-> FALSE,
                 elements |-> <<>>, versions |-> {}, snapshot |-> None,
                 page_client |-> None]

\* the answers a snapshot request for the position can get
AnswersFor(position) ==
    IF IsSome(position) /\ IsSome(Get(position).page_index)
    THEN PageAnswers(Get(Get(position).page_index))
    ELSE BOOLEAN

\* find(object_type, position)
Find ==
    \E object_type \in QueryTypes, position \in QueryPositions :
      \E ok \in (IF IsPathBypass(object_type, position) THEN BOOLEAN
                 ELSE AnswersFor(position)) :
      \E r \in {FindObjects(Cache, object_type, position, DEFAULT_TOLERANCE, ok)} :
        /\ Complete("find", [object_type |-> object_type, position |-> position], r, None)
        /\ UNCHANGED <<serverDoc, serverVersion>>

\* find_paths(position)
FindPathsCall ==
    \E position \in QueryPositions :
      \E ok \in (IF IsPathBypass(Some("PATH"), position) THEN BOOLEAN
                 ELSE AnswersFor(position)) :
      \E r \in {FindPaths(Cache, position, DEFAULT_TOLERANCE, ok)} :
        /\ Complete("find_paths", [object_type |-> Some("PATH"), position |-> position],
                    r, None)
        /\ UNCHANGED <<serverDoc, serverVersion>>

\* find_form_fields(position); find_paragraphs, find_text_lines, find_images and
\* find_form_x_objects differ in the object type only
FindFormFields ==
    \E position \in QueryPositions :
      \E ok \in AnswersFor(position) :
      \E r \in {FindInSnapshots(Cache, Some("FORM_FIELD"), position,
                                DEFAULT_TOLERANCE, ok)} :
        /\ Complete("find_form_fields",
                    [object_type |-> Some("FORM_FIELD"), position |-> position], r, None)
        /\ UNCHANGED <<serverDoc, serverVersion>>

\* page(page_index) up to the PageClient it builds
PageOf(c, page_index, ok) ==
    LET got == GetOrFetchPageSnapshot(c, page_index, ok)
    IN  IF got.raised # ""
        THEN Done(got.cache, got.raised, got.requests, 0, NoReturn)
        ELSE Done(got.cache, "", got.requests, 0,
                  [NoReturn EXCEPT !.truthy = TRUE,
                                   !.versions = {Get(got.value).version},
                                   !.snapshot = Some(Get(got.value).id)])

\* pages() / _get_pages(): the page references of the document snapshot
PagesOf(c, ok) ==
    LET got == GetOrFetchDocumentSnapshot(c, ok)
    IN  IF got.raised # ""
        THEN Done(got.cache, got.raised, got.requests, 0, NoReturn)
        ELSE Done(got.cache, "", got.requests, 0,
                  [NoReturn EXCEPT !.truthy = Len(Get(got.value).pages) > 0,
                                   !.versions = {Get(got.value).version},
                                   !.snapshot = Some(Get(got.value).id)])

\* page(page_index)
Page ==
    \E page_index \in PageIndices :
      \E ok \in PageAnswers(page_index) :
        \E r \in {PageOf(Cache, page_index, ok)} :
            /\ Complete("page", [page_index |-> page_index], r,
                        IF r.raised = "" THEN Some(PageClientOf(page_index)) ELSE None)
            /\ UNCHANGED <<serverDoc, serverVersion>>

\* pages()
Pages ==
    \E ok \in BOOLEAN :
      \E r \in {PagesOf(Cache, ok)} :
        /\ Complete("pages", <<>>, r, None)
        /\ UNCHANGED <<serverDoc, serverVersion>>

\* delete(object_ref)
Delete ==
    \E object_ref \in Refs :
      \E answer \in AnswersTo(DeleteObject(Cache, object_ref, "raise")) :
        \E r \in {DeleteObject(Cache, object_ref, answer)} :
            /\ Complete("delete", [object_ref |-> object_ref], r, None)
            /\ ServerApplies(r, answer)

\* _delete_page(page_ref)
DeletePageCall ==
    \E page_ref \in Refs :
      \E answer \in AnswersTo(DeletePage(Cache, page_ref, "raise")) :
        \E r \in {DeletePage(Cache, page_ref, answer)} :
            /\ Complete("delete_page", [page_ref |-> page_ref], r, None)
            /\ ServerApplies(r, answer)

\* move(object_ref, position)
Move ==
    \E object_ref \in Refs, position \in {None, Some(AtPageCoordinates(0, 10000, 10000))} :
      \E answer \in AnswersTo(MoveObject(Cache, object_ref, position, "raise")) :
        \E r \in {MoveObject(Cache, object_ref, position, answer)} :
            /\ Complete("move", [object_ref |-> object_ref, position |-> position], r, None)
            /\ ServerApplies(r, answer)

\* move_page(from_page_index, to_page_index)
MovePageCall ==
    \E move \in PageMoves :
      \E answer \in AnswersTo(MovePage(Cache, move[1], move[2], "raise")) :
        \E r \in {MovePage(Cache, move[1], move[2], answer)} :
            /\ Complete("move_page", [from_page_index |-> move[1],
                                      to_page_index |-> move[2]], r, None)
            /\ ServerApplies(r, answer)

\* _add_object(pdf_object), reached from _add_image and _add_paragraph
Add ==
    \E answer \in MutationAnswers :
        \E r \in {AddObject(Cache, answer)} :
            /\ Complete("add", <<>>, r, None)
            /\ ServerApplies(r, answer)

\* _add_image(image, position)
AddImageCall ==
    \E image \in Images, position \in {None, Some(AtPage(0))} :
      \E answer \in AnswersTo(AddImage(Cache, image, position, "raise")) :
        \E r \in {AddImage(Cache, image, position, answer)} :
            /\ Complete("add_image", [image |-> image, position |-> position], r, None)
            /\ ServerApplies(r, answer)

\* _add_paragraph(paragraph)
AddParagraphCall ==
    \E paragraph \in Paragraphs :
      \E answer \in AnswersTo(AddParagraph(Cache, paragraph, "raise")) :
        \E r \in {AddParagraph(Cache, paragraph, answer)} :
            /\ Complete("add_paragraph", [paragraph |-> paragraph], r, None)
            /\ ServerApplies(r, answer)

\* new_page()
NewPageCall ==
    \E answer \in MutationAnswers \ {"false"} :
        \E r \in {NewPage(Cache, answer)} :
            /\ Complete("new_page", <<>>, r, None)
            /\ ServerApplies(r, answer)

\* modify_paragraph(object_ref, new_paragraph)
ModifyParagraphCall ==
    \E object_ref \in Refs, new_paragraph \in {"None", "str", "Paragraph"} :
      \E answer \in AnswersTo(ModifyParagraph(Cache, object_ref, new_paragraph, "raise")) :
        \E r \in {ModifyParagraph(Cache, object_ref, new_paragraph, answer)} :
            /\ Complete("modify_paragraph", [object_ref |-> object_ref,
                                             new_paragraph |-> new_paragraph], r, None)
            /\ ServerApplies(r, answer)

\* modify_text_line(object_ref, new_text)
ModifyTextLineCall ==
    \E object_ref \in Refs, new_text \in {None, Some(<<"H", "i">>)} :
      \E answer \in AnswersTo(ModifyTextLine(Cache, object_ref, new_text, "raise")) :
        \E r \in {ModifyTextLine(Cache, object_ref, new_text, answer)} :
            /\ Complete("modify_text_line", [object_ref |-> object_ref,
                                             new_text |-> new_text], r, None)
            /\ ServerApplies(r, answer)

\* change_form_field(form_field_ref, new_value)
ChangeFormFieldCall ==
    \E form_field_ref \in Refs :
      \E answer \in AnswersTo(ChangeFormField(Cache, form_field_ref, "raise")) :
        \E r \in {ChangeFormField(Cache, form_field_ref, answer)} :
            /\ Complete("change_form_field", [form_field_ref |-> form_field_ref], r, None)
            /\ ServerApplies(r, answer)

\* PageClient(page_index, root).move_to(target_page_index)
PageMoveTo ==
    \E page_index \in 0 .. (MaxPages - 1), target_page_index \in PageTargets :
      \E answer \in AnswersTo(PageClientMoveTo(Cache, PageClientOf(page_index),
                                               target_page_index, "raise")) :
        \E r \in {PageClientMoveTo(Cache, PageClientOf(page_index),
                                   target_page_index, answer)} :
            /\ Complete("page_move_to", [page_index |-> page_index,
                                         target_page_index |-> target_page_index], r,
                        Some(PageClientMoved(PageClientOf(page_index), target_page_index,
                                             r.raised = "" /\ r.truthy)))
            /\ ServerApplies(r, answer)

\* PageClient(page_index, root).delete()
PageDelete ==
    \E page_index \in 0 .. (MaxPages - 1), answer \in MutationAnswers :
        \E r \in {DeletePage(Cache, Some("ref"), answer)} :
            /\ Complete("page_delete", [page_index |-> page_index], r,
                        Some(PageClientOf(page_index)))
            /\ ServerApplies(r, answer)

Next ==
    \/ Find
    \/ FindPathsCall
    \/ FindFormFields
    \/ Page
    \/ Pages
    \/ Delete
    \/ DeletePageCall
    \/ Move
    \/ MovePageCall
    \/ Add
    \/ AddImageCall
    \/ AddParagraphCall
    \/ NewPageCall
    \/ ModifyParagraphCall
    \/ ModifyTextLineCall
    \/ ChangeFormFieldCall
    \/ PageMoveTo
    \/ PageDelete

Spec == Init /\ [][Next]_vars

\* ------------------------------------------------------- cache lookups alone
\* The lookups on every cache the two slots can hold, also the caches a caller
\* sees between the two writes of _get_or_fetch_document_snapshot (the document
\* slot written, the page slots not filled yet; section 5 of the specification:
\* a second thread on the same session): any page slots fetched by page
\* requests, with or without the document snapshot.
LookupInit ==
    /\ serverDoc \in Docs
    /\ serverVersion = 0
    /\ document_snapshot \in {None, Some(ServerDocumentSnapshot)}
    /\ \E held \in SUBSET (0 .. (Len(serverDoc) - 1)) :
          page_snapshots = [i \in held |-> ServerPageSnapshot("page", i)]
    /\ lastOp = [op |-> "open", args |-> <<>>, raised |-> "", requests |-> <<>>,
                 invalidations |-> 0, truthy |-> FALSE, success |-> FALSE,
                 elements |-> <<>>, versions |-> {}, snapshot |-> None,
                 page_client |-> None]

LookupNext == Page

LookupSpec == LookupInit /\ [][LookupNext]_vars

\* ------------------------------------------------------ the filter alone
\* _find on one snapshot, for every element list of a page and every query:
\* the elements of the pages the server may hold here
ParaHelloWorld ==
    Element("PARAGRAPH_000011", "PARAGRAPH",
            Some(BoundingRect(10005, 9995, 5000, 5000)),
            Some(<<"H", "e", "l", "l", "o", " ", "W", "o", "r", "l", "d">>), None)
ParaHelloThere ==
    Element("PARAGRAPH_000012", "PARAGRAPH",
            Some(BoundingRect(50000, 50000, 5000, 5000)),
            Some(<<"h", "e", "l", "l", "o", " ", "t", "h", "e", "r", "e">>), None)
ParaGoodbyeAll ==
    Element("PARAGRAPH_000013", "PARAGRAPH", None,
            Some(<<"G", "o", "o", "d", "b", "y", "e">>), None)
ParaNoText ==
    Element("PARAGRAPH_000014", "PARAGRAPH",
            Some(BoundingRect(10000, 10000, 1000, 1000)), None, None)
RadioFirstname ==
    Element("FORM_FIELD_000003", "RADIO_BUTTON",
            Some(BoundingRect(10000, 10000, 1000, 1000)), None, Some("firstname"))
PlainFirstName ==
    Element("FORM_FIELD_000004", "FORM_FIELD", None, None, Some("firstName"))

FilterElements ==
    {ParaHelloWorld, ParaHelloThere, ParaGoodbyeAll, ParaNoText, FirstName, Agree,
     RadioFirstname, PlainFirstName, PathShape}

\* the longest element list of the first page
MaxElements == 3

\* the element lists of the first page: every list of up to MaxElements elements
FilterPages ==
    UNION {[1 .. n -> FilterElements] : n \in 0 .. MaxElements}

\* the documents: the first page alone, or a first page of up to two elements
\* followed by a second page
FilterDocs ==
    {<<first>> : first \in FilterPages}
    \cup {<<first, <<ParaHelloThere, FirstName>>>> :
              first \in {page \in FilterPages : Len(page) <= 2}}

\* the object types asked for (None: the generic find without a type)
FilterTypes ==
    {None, Some("PARAGRAPH"), Some("FORM_FIELD"), Some("TEXT_FIELD"),
     Some("CHECK_BOX"), Some("PATH")}

\* the texts of the queries
TextHello == <<"h", "e", "l", "l", "o">>
TextCapitalHello == <<"H", "e", "l", "l", "o">>

\* the positions asked for
FilterPositions ==
    {None, Some(AtPage(0)), Some(AtPage(1)),
     Some(WithTextStarts(EmptyPosition, TextHello)),
     Some(WithTextStarts(EmptyPosition, TextCapitalHello)),
     Some(WithTextStarts(EmptyPosition, <<>>)),
     Some(WithTextStarts(AtPage(0), TextHello)),
     Some([EmptyPosition EXCEPT !.text_pattern = Some(TextCapitalHello)]),
     Some([EmptyPosition EXCEPT !.bounding_rect = Some(BoundingRect(10000, 10000, 0, 0))]),
     Some(AtPageCoordinates(0, 10000, 10000)),
     Some(ByName("firstName")),
     Some([ByName("firstName") EXCEPT
              !.bounding_rect = Some(BoundingRect(50000, 50000, 0, 0))])}

\* a session just opened on one of the documents, and the query its caller is
\* about to make (a page the document has)
FilterInit ==
    /\ document_snapshot = None
    /\ page_snapshots = <<>>
    /\ serverDoc \in FilterDocs
    /\ serverVersion = 0
    /\ \E object_type \in FilterTypes, position \in FilterPositions :
          /\ (IsSome(position) /\ IsSome(Get(position).page_index))
                => Get(Get(position).page_index) < Len(serverDoc)
          /\ lastOp = [op |-> "query",
                       args |-> [object_type |-> object_type, position |-> position],
                       raised |-> "", requests |-> <<>>, invalidations |-> 0,
                       truthy |-> FALSE, success |-> FALSE, elements |-> <<>>,
                       versions |-> {}, snapshot |-> None, page_client |-> None]

\* _find(object_type, position) with the default tolerance, answered by the server
FilterFind ==
    /\ lastOp.op = "query"
    /\ \E r \in {FindObjects(Cache, lastOp.args.object_type, lastOp.args.position,
                             DEFAULT_TOLERANCE, TRUE)} :
          Complete("find", lastOp.args, r, None)
    /\ UNCHANGED <<serverDoc, serverVersion>>

FilterNext == FilterFind

FilterSpec == FilterInit /\ [][FilterNext]_vars

\* ------------------------------------------------ the rectangle stage alone
\* _filter_snapshot_elements on one image and a point query, for the rectangles
\* of a grid of 0.005 pt around the origin and the tolerances 0, 0.005, 0.01
MaxGrid == 6

\* the coordinates of the grid, in 1/1000 pt
GridCoordinates == {5 * k : k \in 0 .. MaxGrid}

\* the widths and heights of the elements
GridSizes == {0, 5, 10}

\* an IMAGE element with the bounding rectangle (None: it has none)
ImageAt(rect) == Element("IMAGE_000001", "IMAGE", rect, None, None)

\* a query for the point (x, y)
PointQuery(x, y) == [EmptyPosition EXCEPT !.bounding_rect = Some(BoundingRect(x, y, 0, 0))]

\* the element, the query and the tolerance of a call: the grid, an element
\* without rectangle, and two elements at (10.005, 9.995) and (50, 50) of size
\* 5 x 5 asked at the point (10, 10) with the default tolerance
RectInputs ==
    {[element |-> ImageAt(Some(BoundingRect(x, y, w, h))), position |-> PointQuery(px, py),
      tolerance |-> t] :
        x \in GridCoordinates, y \in GridCoordinates, w \in GridSizes, h \in GridSizes,
        px \in {10, 15}, py \in GridCoordinates,
        t \in {0, 5, DEFAULT_TOLERANCE}}
    \cup {[element |-> ImageAt(None), position |-> PointQuery(px, py),
           tolerance |-> DEFAULT_TOLERANCE] :
             px \in GridCoordinates, py \in GridCoordinates}
    \cup {[element |-> ImageAt(Some(BoundingRect(10005, 9995, 5000, 5000))),
           position |-> PointQuery(10000, 10000), tolerance |-> DEFAULT_TOLERANCE],
          [element |-> ImageAt(Some(BoundingRect(50000, 50000, 5000, 5000))),
           position |-> PointQuery(10000, 10000), tolerance |-> DEFAULT_TOLERANCE]}

\* the arguments of the coming call
RectInit ==
    /\ document_snapshot = None
    /\ page_snapshots = <<>>
    /\ serverDoc = <<<<>>>>
    /\ serverVersion = 0
    /\ \E input \in RectInputs :
          lastOp = [op |-> "filter_input", args |-> input,
                    raised |-> "", requests |-> <<>>, invalidations |-> 0,
                    truthy |-> FALSE, success |-> FALSE, elements |-> <<>>,
                    versions |-> {}, snapshot |-> None, page_client |-> None]

\* _filter_snapshot_elements([element], ObjectType.IMAGE, position, tolerance)
RectFilter ==
    /\ lastOp.op = "filter_input"
    /\ \E filtered \in {FilterSnapshotElements(<<lastOp.args.element>>, Some("IMAGE"),
                                               Some(lastOp.args.position),
                                               lastOp.args.tolerance)} :
          lastOp' = [lastOp EXCEPT !.op = "filter", !.elements = filtered,
                                   !.truthy = Len(filtered) > 0]
    /\ UNCHANGED <<document_snapshot, page_snapshots, serverDoc, serverVersion>>

RectNext == RectFilter

RectSpec == RectInit /\ [][RectNext]_vars

\* ------------------------------------------------------ the parsers alone
\* A JSON object is a record whose optional keys hold None when the key is
\* absent; a boundingRect object is a record of the keys it has.  The payloads
\* always carry internalId, and no shape, mode, textStartsWith, children,
\* color, status or fonts.
RectKeys == {"x", "y", "width", "height"}

\* the JSON object the server sends for an element
ElementData(e) ==
    [type |-> Some(e.type), internalId |-> e.internal_id,
     position |-> IF IsSome(e.bounding_rect)
                  THEN Some([pageIndex |-> Some(0), boundingRect |-> e.bounding_rect])
                  ELSE None,
     name |-> e.name, value |-> e.value, text |-> e.text]

\* the JSON object with another type string (None: without the key)
WithType(data, type) == [data EXCEPT !.type = type]

\* the JSON object with another boundingRect object in its position
WithRect(data, rect) ==
    [data EXCEPT !.position = Some([pageIndex |-> Some(0), boundingRect |-> Some(rect)])]

\* what a parser hands back: the exception it raised ("" for none) and the
\* value it returned
Parsed(raised, value) == [raised |-> raised, value |-> value]

\* _parse_position(pos_data): a boundingRect object is indexed by its four keys
ParsePosition(pos_data) ==
    IF IsNone(pos_data.boundingRect)
    THEN Parsed("", [EmptyPosition EXCEPT !.page_index = pos_data.pageIndex])
    ELSE LET rect_data == Get(pos_data.boundingRect)
         IN  IF ~(RectKeys \subseteq DOMAIN rect_data)
             THEN Parsed("KeyError", None)
             ELSE Parsed("", [EmptyPosition EXCEPT
                                 !.page_index = pos_data.pageIndex,
                                 !.bounding_rect =
                                     Some(BoundingRect(rect_data.x, rect_data.y,
                                                       rect_data.width, rect_data.height))])

\* truth value of obj_data.get('position', {}): an absent or empty object is falsy
TruthyPosition(obj_data) ==
    /\ IsSome(obj_data.position)
    /\ \/ IsSome(Get(obj_data.position).pageIndex)
       \/ IsSome(Get(obj_data.position).boundingRect)

\* position = self._parse_position(position_data) if position_data else default
PositionOf(obj_data, default) ==
    IF TruthyPosition(obj_data)
    THEN LET position == ParsePosition(Get(obj_data.position))
         IN  Parsed(position.raised,
                    IF position.raised = "" THEN Some(position.value) ELSE None)
    ELSE Parsed("", default)

\* the bounding rectangle an element has through its position
RectOf(position) == IF IsNone(position) THEN None ELSE Get(position).bounding_rect

\* ObjectType(obj_data['type'])
ObjectTypeOf(type) ==
    IF IsNone(type) THEN Parsed("KeyError", None)
    ELSE IF Get(type) \notin ObjectType THEN Parsed("ValueError", None)
    ELSE Parsed("", Get(type))

\* _parse_object_ref(obj_data)
ParseObjectRef(obj_data) ==
    LET position == PositionOf(obj_data, None)
        object_type == ObjectTypeOf(obj_data.type)
    IN  IF position.raised # "" THEN Parsed(position.raised, None)
        ELSE IF object_type.raised # "" THEN Parsed(object_type.raised, None)
        ELSE Parsed("", Some([internal_id |-> obj_data.internalId,
                              type |-> object_type.value, cls |-> "ObjectRef",
                              bounding_rect |-> RectOf(position.value),
                              text |-> None, name |-> None, value |-> None,
                              children |-> <<>>]))

\* _parse_form_field_ref(obj_data)
ParseFormFieldRef(obj_data) ==
    LET position == PositionOf(obj_data, None)
        object_type == ObjectTypeOf(obj_data.type)
    IN  IF position.raised # "" THEN Parsed(position.raised, None)
        ELSE IF object_type.raised # "" THEN Parsed(object_type.raised, None)
        ELSE Parsed("", Some([internal_id |-> obj_data.internalId,
                              type |-> object_type.value, cls |-> "FormFieldRef",
                              bounding_rect |-> RectOf(position.value),
                              text |-> None, name |-> obj_data.name,
                              value |-> obj_data.value, children |-> <<>>]))

\* a fallback identifier that counts the children from one
FallbackIdFromOne(internal_id, index) ==
    (IF internal_id = "" THEN "child" ELSE internal_id) \o "-" \o ToString(index + 1)

\* f"{internal_id or 'child'}-{index}", the identifier handed to the child at
\* the index
FallbackId(internal_id, index) ==
    (IF internal_id = "" THEN "child" ELSE internal_id) \o "-" \o ToString(index)

RECURSIVE ParseTextObjectRef(_, _)
\* _parse_text_object_ref(obj_data, fallback_id): the position defaults to
\* Position(), the type to TEXT_LINE, the identifier to fallback_id or '';
\* the children are parsed in order, each with its fallback identifier
ParseTextObjectRef(obj_data, fallback_id) ==
    LET position == PositionOf(obj_data, Some(EmptyPosition))
        object_type ==
            ObjectTypeOf(IF IsNone(obj_data.type) THEN Some("TEXT_LINE") ELSE obj_data.type)
        internal_id ==
            IF "internalId" \in DOMAIN obj_data THEN obj_data.internalId
            ELSE IF IsNone(fallback_id) THEN "" ELSE Get(fallback_id)
        children_data ==
            IF "children" \in DOMAIN obj_data THEN obj_data.children ELSE <<>>
        children ==
            [k \in DOMAIN children_data |->
                ParseTextObjectRef(children_data[k], Some(FallbackId(internal_id, k - 1)))]
    IN  IF position.raised # "" THEN Parsed(position.raised, None)
        ELSE IF object_type.raised # "" THEN Parsed(object_type.raised, None)
        ELSE IF \E k \in DOMAIN children : children[k].raised # ""
        THEN Parsed(children[CHOOSE k \in DOMAIN children :
                                 /\ children[k].raised # ""
                                 /\ \A j \in DOMAIN children :
                                       children[j].raised # "" => k <= j].raised,
                    None)
        ELSE Parsed("", Some([internal_id |-> internal_id,
                              type |-> object_type.value, cls |-> "TextObjectRef",
                              bounding_rect |-> RectOf(position.value),
                              text |-> obj_data.text, name |-> None, value |-> None,
                              children |-> [k \in DOMAIN children |->
                                               Get(children[k].value)]]))

\* _parse_page_ref(obj_data), obj_data None standing for the empty object
ParsePageRef(obj_data) ==
    LET object_type ==
            ObjectTypeOf(IF IsNone(obj_data) THEN None ELSE Get(obj_data).type)
    IN  IF object_type.raised # "" THEN Parsed(object_type.raised, None)
        ELSE Parsed("", Some([type |-> object_type.value]))

\* a normalization that writes the type into the element object of the
\* payload, without copy.deepcopy
NormalizeTypeInPlace(elem_data) ==
    IF elem_data.type = Some("CHECKBOX")
    THEN [elem_data |-> [elem_data EXCEPT !.type = Some("CHECK_BOX")],
          payload |-> [elem_data EXCEPT !.type = Some("CHECK_BOX")]]
    ELSE [elem_data |-> elem_data, payload |-> elem_data]

\* the type normalization of _parse_page_snapshot: "CHECKBOX" is read as
\* "CHECK_BOX" in a deep copy of the element object.  elem_data is the object
\* the loop goes on with, payload the object left in the caller's payload.
NormalizeType(elem_data) ==
    IF elem_data.type = Some("CHECKBOX")
    THEN [elem_data |-> [elem_data EXCEPT !.type = Some("CHECK_BOX")],
          payload |-> elem_data]
    ELSE [elem_data |-> elem_data, payload |-> elem_data]

\* the body of the loop of _parse_page_snapshot for one element: the elements
\* it appends (none when the element is skipped)
ParseSnapshotElement(elem_data) ==
    IF IsNone(elem_data.type) \/ elem_data.type = Some("") THEN <<>>
    ELSE LET data == NormalizeType(elem_data).elem_data
             elem_type_str == Get(data.type)
             parsed ==
                 IF elem_type_str \notin ObjectType THEN Parsed("ValueError", None)
                 ELSE IF elem_type_str \in {"PARAGRAPH", "TEXT_LINE"}
                      THEN ParseTextObjectRef(data, None)
                 ELSE IF elem_type_str \in {"FORM_FIELD", "TEXT_FIELD", "CHECK_BOX",
                                            "RADIO_BUTTON"}
                      THEN ParseFormFieldRef(data)
                 ELSE ParseObjectRef(data)
         IN  IF parsed.raised \in {"ValueError", "KeyError"} THEN <<>>
             ELSE <<Get(parsed.value)>>

RECURSIVE ParseElements(_)
\* a loop that stops at the first element it cannot parse
ParseElementsUntilInvalid(elements) ==
    IF elements = <<>> THEN <<>>
    ELSE LET first == ParseSnapshotElement(Head(elements))
         IN  IF first = <<>> THEN <<>> ELSE first \o ParseElements(Tail(elements))

\* the loop of _parse_page_snapshot over data['elements']
ParseElements(elements) ==
    IF elements = <<>> THEN <<>>
    ELSE ParseSnapshotElement(Head(elements)) \o ParseElements(Tail(elements))

\* the caller's page payload after _parse_page_snapshot(data) has run
PagePayloadAfter(data) ==
    IF "elements" \in DOMAIN data
    THEN [data EXCEPT !.elements =
             [k \in DOMAIN data.elements |-> NormalizeType(data.elements[k]).payload]]
    ELSE data

\* the caller's document payload after _parse_document_snapshot(data) has run:
\* the pages are parsed in order, up to the first whose pageRef makes
\* _parse_page_ref raise
DocumentPayloadAfter(data) ==
    IF "pages" \in DOMAIN data
    THEN [data EXCEPT !.pages =
             [k \in DOMAIN data.pages |->
                 IF \A j \in 1 .. k : IsSome(data.pages[j].pageRef)
                 THEN PagePayloadAfter(data.pages[k])
                 ELSE data.pages[k]]]
    ELSE data

\* _parse_page_snapshot(data): data.get('elements', []) reads a payload
\* without the key as one without elements
ParsePageSnapshot(data) ==
    LET page_ref == ParsePageRef(data.pageRef)
        elements == IF "elements" \in DOMAIN data THEN data.elements ELSE <<>>
    IN  IF page_ref.raised # "" THEN Parsed(page_ref.raised, None)
        ELSE Parsed("", Some([page_ref |-> Get(page_ref.value),
                              elements |-> ParseElements(elements)]))

\* _parse_document_snapshot(data): data.get('pageCount', 0) and
\* data.get('pages', []) read a payload without these keys as an empty document
ParseDocumentSnapshot(data) ==
    LET page_count == IF "pageCount" \in DOMAIN data THEN data.pageCount ELSE 0
        pages_data == IF "pages" \in DOMAIN data THEN data.pages ELSE <<>>
        pages == [k \in DOMAIN pages_data |-> ParsePageSnapshot(pages_data[k])]
    IN  IF \E k \in DOMAIN pages : pages[k].raised # ""
        THEN Parsed(pages[CHOOSE k \in DOMAIN pages :
                              /\ pages[k].raised # ""
                              /\ \A j \in DOMAIN pages : pages[j].raised # "" => k <= j].raised,
                    None)
        ELSE Parsed("", Some([page_count |-> page_count,
                              pages |-> [k \in DOMAIN pages |-> Get(pages[k].value)]]))

\* the element objects of the payloads: well-formed ones, the check box under
\* the type string "CHECKBOX", an unknown type string, no type, and
\* boundingRect objects that lack some of their keys
WatermarkData == WithType(ElementData(PathShape), Some("WATERMARK"))
ShortRectParagraphData ==
    WithRect(ElementData(ParaHelloWorld), [x |-> 10005, y |-> 9995, width |-> 5000])
ShortRectPathData == WithRect(ElementData(PathShape), [width |-> 2000, height |-> 2000])
ShortRectFieldData ==
    WithRect(ElementData(FirstName), [x |-> 50000, y |-> 50000, height |-> 5000])

\* the check box "agree" with the value "Yes", and its element object under
\* the type string "CHECKBOX"
AgreeChecked == [Agree EXCEPT !.value = Some("Yes")]
CheckboxData == WithType(ElementData(AgreeChecked), Some("CHECKBOX"))

ElementDatas ==
    {ElementData(ParaHelloWorld), ElementData(FirstName), ElementData(AgreeChecked),
     ElementData(PathShape), CheckboxData,
     WatermarkData, WithType(ElementData(ParaHelloWorld), None),
     ShortRectParagraphData, ShortRectPathData, ShortRectFieldData}

\* the longest element list of a page payload
MaxPayload == 3

\* the pageRef objects: a page reference, or none
PageRefDatas == {Some([type |-> Some("PAGE")]), None}

\* the page-snapshot payloads, the last two without the key "elements"
PagePayloads ==
    {[pageRef |-> page_ref, elements |-> elements] :
        page_ref \in PageRefDatas,
        elements \in UNION {[1 .. n -> ElementDatas] : n \in 0 .. MaxPayload}}
    \cup {[pageRef |-> page_ref] : page_ref \in PageRefDatas}

\* the document-snapshot payloads: one of the page payloads, alone or followed
\* by a second page; and payloads without the key "pages", without the key
\* "pageCount", and with neither
DocumentPayloads ==
    {[pageCount |-> Len(pages), pages |-> pages] :
        pages \in {<<first>> : first \in PagePayloads}
                  \cup {<<first, [pageRef |-> Some([type |-> Some("PAGE")]),
                                  elements |-> <<ElementData(FirstName)>>]>> :
                            first \in PagePayloads}}
    \cup {[pageCount |-> 1],
          [pages |-> <<[pageRef |-> Some([type |-> Some("PAGE")]),
                        elements |-> <<ElementData(FirstName)>>]>>],
          [fonts |-> <<>>]}

\* a session and the payload of the answer it is about to parse
ParseInit ==
    /\ document_snapshot = None
    /\ page_snapshots = <<>>
    /\ serverDoc = <<<<>>>>
    /\ serverVersion = 0
    /\ \E input \in [kind : {"page"}, data : PagePayloads]
                    \cup [kind : {"document"}, data : DocumentPayloads] :
          lastOp = [op |-> "payload", args |-> input,
                    raised |-> "", requests |-> <<>>, invalidations |-> 0,
                    truthy |-> FALSE, success |-> FALSE, elements |-> <<>>,
                    versions |-> {}, snapshot |-> None, page_client |-> None]

\* _parse_page_snapshot(data): lastOp.snapshot is the PageSnapshot returned,
\* lastOp.args.data the caller's payload as the call leaves it
ParsePageSnapshotCall ==
    /\ lastOp.op = "payload"
    /\ lastOp.args.kind = "page"
    /\ \E parsed \in {ParsePageSnapshot(lastOp.args.data)} :
          lastOp' = [lastOp EXCEPT !.op = "parse_page_snapshot",
                                   !.args.data = PagePayloadAfter(@),
                                   !.raised = parsed.raised,
                                   !.truthy = parsed.raised = "",
                                   !.snapshot = parsed.value]
    /\ UNCHANGED <<document_snapshot, page_snapshots, serverDoc, serverVersion>>

\* _parse_document_snapshot(data): lastOp.snapshot is the DocumentSnapshot
\* returned, lastOp.args.data the caller's payload as the call leaves it
ParseDocumentSnapshotCall ==
    /\ lastOp.op = "payload"
    /\ lastOp.args.kind = "document"
    /\ \E parsed \in {ParseDocumentSnapshot(lastOp.args.data)} :
          lastOp' = [lastOp EXCEPT !.op = "parse_document_snapshot",
                                   !.args.data = DocumentPayloadAfter(@),
                                   !.raised = parsed.raised,
                                   !.truthy = parsed.raised = "",
                                   !.snapshot = parsed.value]
    /\ UNCHANGED <<document_snapshot, page_snapshots, serverDoc, serverVersion>>

\* get_document_snapshot() when the server answers with a payload, parsed
\* being what _parse_document_snapshot makes of it
GetDocumentSnapshotParsing(c, parsed) ==
    Outcome(c, parsed.raised, parsed.value, <<"GET /pdf/document/snapshot">>)

\* get_page_snapshot(page_index) when the server answers with a payload, parsed
\* being what _parse_page_snapshot makes of it
GetPageSnapshotParsing(c, page_index, parsed) ==
    IF page_index < 0
    THEN Outcome(c, "ValidationException", None, <<>>)
    ELSE Outcome(c, parsed.raised, parsed.value, <<"GET /pdf/page/snapshot">>)

\* _get_or_fetch_document_snapshot() when the server answers with a payload
GetOrFetchDocumentSnapshotParsing(c, parsed) ==
    IF IsNone(c.document_snapshot)
    THEN LET got == GetDocumentSnapshotParsing(c, parsed)
         IN  IF got.raised # ""
             THEN got
             ELSE Outcome([document_snapshot |-> got.value,
                           page_snapshots |->
                               FillMissingPages(c.page_snapshots, Get(got.value))],
                          "", got.value, got.requests)
    ELSE Outcome(c, "", c.document_snapshot, <<>>)

\* _get_or_fetch_page_snapshot(page_index) when the server answers with a
\* payload
GetOrFetchPageSnapshotParsing(c, page_index, parsed) ==
    IF page_index \in DOMAIN c.page_snapshots
    THEN Outcome(c, "", Some(c.page_snapshots[page_index]), <<>>)
    ELSE IF /\ IsSome(c.document_snapshot)
            /\ 0 <= page_index
            /\ page_index < Len(Get(c.document_snapshot).pages)
         THEN LET page_snapshot == Get(c.document_snapshot).pages[page_index + 1]
              IN  Outcome([c EXCEPT !.page_snapshots = Put(@, page_index, page_snapshot)],
                          "", Some(page_snapshot), <<>>)
         ELSE LET got == GetPageSnapshotParsing(c, page_index, parsed)
              IN  IF got.raised # ""
                  THEN got
                  ELSE Outcome([c EXCEPT !.page_snapshots =
                                             Put(@, page_index, Get(got.value))],
                               "", got.value, got.requests)

\* _get_or_fetch_document_snapshot() on the fresh session, answered with the
\* payload
GetOrFetchDocumentSnapshotCall ==
    /\ lastOp.op = "payload"
    /\ lastOp.args.kind = "document"
    /\ \E parsed \in {ParseDocumentSnapshot(lastOp.args.data)} :
       \E done \in {GetOrFetchDocumentSnapshotParsing(Cache, parsed)} :
          /\ document_snapshot' = done.cache.document_snapshot
          /\ page_snapshots' = done.cache.page_snapshots
          /\ lastOp' = [lastOp EXCEPT !.op = "get_or_fetch_document_snapshot",
                                      !.raised = done.raised,
                                      !.requests = done.requests,
                                      !.truthy = done.raised = "",
                                      !.snapshot = done.value]
    /\ UNCHANGED <<serverDoc, serverVersion>>

\* _get_or_fetch_page_snapshot(0) on the fresh session, answered with the
\* payload
GetOrFetchPageSnapshotCall ==
    /\ lastOp.op = "payload"
    /\ lastOp.args.kind = "page"
    /\ \E parsed \in {ParsePageSnapshot(lastOp.args.data)} :
       \E done \in {GetOrFetchPageSnapshotParsing(Cache, 0, parsed)} :
          /\ document_snapshot' = done.cache.document_snapshot
          /\ page_snapshots' = done.cache.page_snapshots
          /\ lastOp' = [lastOp EXCEPT !.op = "get_or_fetch_page_snapshot",
                                      !.raised = done.raised,
                                      !.requests = done.requests,
                                      !.truthy = done.raised = "",
                                      !.snapshot = done.value]
    /\ UNCHANGED <<serverDoc, serverVersion>>

ParseNext ==
    \/ ParsePageSnapshotCall
    \/ ParseDocumentSnapshotCall
    \/ GetOrFetchDocumentSnapshotCall
    \/ GetOrFetchPageSnapshotCall

ParseSpec == ParseInit /\ [][ParseNext]_vars

\* ------------------------------------------------- the text parser alone
\* most children a text object of the payloads has
MaxChildren == 2

\* the JSON object of a text object: identifier is None for an object without
\* the key "internalId", and the key "children" is present when there are some
TextData(type, identifier, children) ==
    IF IsSome(identifier) /\ children # <<>>
    THEN [type |-> Some(type), position |-> None, text |-> None,
          internalId |-> Get(identifier), children |-> children]
    ELSE IF IsSome(identifier)
    THEN [type |-> Some(type), position |-> None, text |-> None,
          internalId |-> Get(identifier)]
    ELSE IF children # <<>>
    THEN [type |-> Some(type), position |-> None, text |-> None, children |-> children]
    ELSE [type |-> Some(type), position |-> None, text |-> None]

\* the text lines nested in the lines of a paragraph
InnerLineDatas ==
    {TextData("TEXT_LINE", identifier, <<>>) : identifier \in {None, Some("TEXTLINE_000009")}}

\* the lines of a paragraph, each with up to MaxChildren nested lines
LineDatas ==
    {TextData("TEXT_LINE", identifier, children) :
        identifier \in {None, Some("TEXTLINE_000005")},
        children \in UNION {[1 .. n -> InnerLineDatas] : n \in 0 .. MaxChildren}}

\* the paragraphs, each with up to MaxChildren lines
ParagraphDatas ==
    {TextData("PARAGRAPH", identifier, children) :
        identifier \in {None, Some("PARAGRAPH_000001")},
        children \in UNION {[1 .. n -> LineDatas] : n \in 0 .. MaxChildren}}

\* a session and the paragraph object it is about to parse
TextInit ==
    /\ document_snapshot = None
    /\ page_snapshots = <<>>
    /\ serverDoc = <<<<>>>>
    /\ serverVersion = 0
    /\ \E obj_data \in ParagraphDatas :
          lastOp = [op |-> "text_data", args |-> obj_data,
                    raised |-> "", requests |-> <<>>, invalidations |-> 0,
                    truthy |-> FALSE, success |-> FALSE, elements |-> <<>>,
                    versions |-> {}, snapshot |-> None, page_client |-> None]

\* _parse_text_object_ref(elem_data), as _parse_page_snapshot calls it:
\* lastOp.elements holds the TextObjectRef returned
ParseTextObjectRefCall ==
    /\ lastOp.op = "text_data"
    /\ \E parsed \in {ParseTextObjectRef(lastOp.args, None)} :
          lastOp' = [lastOp EXCEPT !.op = "parse_text_object_ref",
                                   !.raised = parsed.raised,
                                   !.truthy = parsed.raised = "",
                                   !.elements = parsed.value]
    /\ UNCHANGED <<document_snapshot, page_snapshots, serverDoc, serverVersion>>

TextNext == ParseTextObjectRefCall

TextSpec == TextInit /\ [][TextNext]_vars

\* ------------------------------------------------------ the transport alone
\* An HTTP response: its status code, the shape of its body as response.json()
\* reads it ("object", "array" for a JSON value that is no object, "invalid"
\* when the body is no JSON), the keys "error" and "message" of a JSON object,
\* the Retry-After header, and response.text.  None stands for a request that
\* fails without a response.
Response(status, json, error, message, retry_after, text) ==
    [status |-> status, json |-> json, error |-> error, message |-> message,
     retry_after |-> retry_after, text |-> text]

\* f"HTTP {response.status_code}"
HttpStatusText(status) == "HTTP " \o ToString(status)

\* _extract_error_message(response), for bodies without _embedded errors
ExtractErrorMessage(answer) ==
    IF IsNone(answer) THEN "Unknown error"
    ELSE LET response == Get(answer)
         IN  IF response.json = "object" /\ IsSome(response.message)
             THEN Get(response.message)
             ELSE IF response.text # "" THEN response.text
             ELSE HttpStatusText(response.status)

\* what a request hands back: the exception raised ("" for none), its message
\* and the response it carries or returns
Answered(raised, message, response) ==
    [raised |-> raised, message |-> message, response |-> response]

\* _make_request(method, path) when the transport answers with the response:
\* the font error of a 404 body, then _handle_authentication_error, then
\* raise_for_status; error_data.get on a JSON value that is no object raises
\* AttributeError, which neither except clause catches
MakeRequestResponse(answer) ==
    IF IsNone(answer)
    THEN Answered("HttpClientException",
                  "API request failed: " \o ExtractErrorMessage(answer), None)
    ELSE LET response == Get(answer)
         IN  IF /\ response.status = 404
                /\ response.json = "object"
                /\ response.error = Some("FontNotFoundException")
             THEN Answered("FontNotFoundException",
                           IF IsSome(response.message) THEN Get(response.message)
                           ELSE "Font not found",
                           None)
             ELSE IF response.status = 404 /\ response.json = "array"
             THEN Answered("AttributeError", "'list' object has no attribute 'get'", None)
             ELSE IF response.status \in {401, 403}
             THEN Answered("ValidationException",
                           "Authentication with the PDFDancer API failed. Server response: "
                               \o ExtractErrorMessage(answer),
                           None)
             ELSE IF response.status >= 400
             THEN Answered("HttpClientException",
                           "API request failed: " \o ExtractErrorMessage(answer), answer)
             ELSE Answered("", "", answer)

\* the bodies of the answers to a request
Bodies ==
    {[json |-> "object", error |-> Some("FontNotFoundException"),
      message |-> Some("Font not found: Foo"), text |-> "{...}"],
     [json |-> "object", error |-> Some("FontNotFoundException"),
      message |-> None, text |-> "{...}"],
     [json |-> "object", error |-> Some("NotFoundException"),
      message |-> Some("No such object"), text |-> "{...}"],
     [json |-> "object", error |-> None, message |-> Some("Not found"), text |-> "{...}"],
     [json |-> "object", error |-> None, message |-> None, text |-> "{}"],
     [json |-> "array", error |-> None, message |-> None, text |-> "[]"],
     [json |-> "invalid", error |-> None, message |-> None, text |-> "<html>"],
     [json |-> "invalid", error |-> None, message |-> None, text |-> ""]}

\* the answers to a request: a response, or none
RequestAnswers ==
    {Some(Response(status, body.json, body.error, body.message, None, body.text)) :
        status \in {200, 401, 403, 404, 429, 500}, body \in Bodies}
    \cup {None}

\* most answers the transport has ready for the session creation
MaxAttempts == 4

\* the answers to POST /session/create: 429 with the Retry-After header "1" or
\* "10", without the header and with a header that is no integer, a session
\* id, an empty session id, or no response
SessionAnswers ==
    {Some(Response(429, "object", Some("Rate limit exceeded"), None, retry_after,
                   "{...}")) : retry_after \in {Some("1"), Some("10"), None, Some("invalid")}}
    \cup {Some(Response(200, "invalid", None, None, None, "test-session-id")),
          Some(Response(200, "invalid", None, None, None, "")),
          None}

\* what session creation hands back: the exception raised ("" for none), its
\* message, the response it carries, the requests sent and the delays slept
Created(raised, message, response, requests, sleeps) ==
    [raised |-> raised, message |-> message, response |-> response,
     requests |-> requests, sleeps |-> sleeps]

\* _create_session(): one POST /session/create, answered by the first of the
\* answers the transport has ready; the method never sleeps
CreateSession(answers) ==
    LET answer == Head(answers)
        sent == <<"POST /session/create">>
    IN  IF IsNone(answer)
        THEN Created("HttpClientException",
                     "Failed to create session: " \o ExtractErrorMessage(answer),
                     None, sent, <<>>)
        ELSE LET response == Get(answer)
             IN  IF response.status \in {401, 403}
                 THEN Created("ValidationException",
                              "Authentication with the PDFDancer API failed. Server response: "
                                  \o ExtractErrorMessage(answer),
                              None, sent, <<>>)
                 ELSE IF response.status >= 400
                 THEN Created("HttpClientException",
                              "Failed to create session: " \o ExtractErrorMessage(answer),
                              answer, sent, <<>>)
                 ELSE IF response.text = ""
                 THEN Created("SessionException", "Server returned empty session ID",
                              None, sent, <<>>)
                 ELSE Created("", "", answer, sent, <<>>)

\* PDFDancer.open(pdf_data, token): _resolve_token, then __init__ with its
\* checks of the token and of the PDF data, then _create_session
Open(token, pdf_data, answers) ==
    IF IsNone(token)
    THEN Created("ValidationException", "Missing PDFDancer API token.", None, <<>>, <<>>)
    ELSE IF IsNone(pdf_data)
    THEN Created("ValidationException", "PDF data cannot be null", None, <<>>, <<>>)
    ELSE CreateSession(answers)

\* the calls of the transport and the answers it has ready for them
TransportInputs ==
    [call : {"make_request"}, token : {Some("token")}, pdf_data : {Some("pdf")},
     answers : {<<answer>> : answer \in RequestAnswers}]
    \cup [call : {"open"}, token : {None, Some("token")}, pdf_data : {None, Some("pdf")},
          answers : UNION {[1 .. n -> SessionAnswers] : n \in 1 .. MaxAttempts}]

\* a call about to be made and the answers the transport will give
TransportInit ==
    /\ document_snapshot = None
    /\ page_snapshots = <<>>
    /\ serverDoc = <<<<>>>>
    /\ serverVersion = 0
    /\ \E input \in TransportInputs :
          lastOp = [op |-> "answers", args |-> input,
                    raised |-> "", message |-> "", response |-> None,
                    requests |-> <<>>, sleeps |-> <<>>, invalidations |-> 0,
                    truthy |-> FALSE, success |-> FALSE, elements |-> <<>>,
                    versions |-> {}, snapshot |-> None, page_client |-> None]

\* _make_request(method, path) on an open session
MakeRequestCall ==
    /\ lastOp.op = "answers"
    /\ lastOp.args.call = "make_request"
    /\ \E done \in {MakeRequestResponse(Head(lastOp.args.answers))} :
          lastOp' = [lastOp EXCEPT !.op = "make_request",
                                   !.raised = done.raised,
                                   !.message = done.message,
                                   !.response = done.response,
                                   !.requests = <<"request">>,
                                   !.truthy = done.raised = ""]
    /\ UNCHANGED <<document_snapshot, page_snapshots, serverDoc, serverVersion>>

\* PDFDancer.open(pdf_data, token)
OpenCall ==
    /\ lastOp.op = "answers"
    /\ lastOp.args.call = "open"
    /\ \E done \in {Open(lastOp.args.token, lastOp.args.pdf_data, lastOp.args.answers)} :
          lastOp' = [lastOp EXCEPT !.op = "open",
                                   !.raised = done.raised,
                                   !.message = done.message,
                                   !.response = done.response,
                                   !.requests = done.requests,
                                   !.sleeps = done.sleeps,
                                   !.truthy = done.raised = ""]
    /\ UNCHANGED <<document_snapshot, page_snapshots, serverDoc, serverVersion>>

TransportNext == MakeRequestCall \/ OpenCall

TransportSpec == TransportInit /\ [][TransportNext]_vars

\* ======================================================== the public calls
\* The calls of the client that go to the server without the snapshot cache,
\* next to the finds that fill the cache and a mutation that invalidates it.

\* the types arguments of the public snapshot calls: none, the empty string, a
\* type
SnapshotTypes == {None, Some(""), Some("PARAGRAPH")}

\* the elements the server puts into a snapshot requested for the types
ElementsOfTypes(elements, types) ==
    SelectSeq(elements, LAMBDA e : e.type = types)

\* the PageSnapshot parsed from the server's answer to a request with the
\* parameter types
ServerPageSnapshotOfTypes(i, types) ==
    [id |-> SnapshotId("page?types=" \o types, serverVersion, i),
     version |-> serverVersion, page_index |-> i,
     elements |-> ElementsOfTypes(serverDoc[i + 1], types)]

\* the DocumentSnapshot parsed from the server's answer to a request with the
\* parameter types
ServerDocumentSnapshotOfTypes(types) ==
    [id |-> SnapshotId("document?types=" \o types, serverVersion, -1),
     version |-> serverVersion, page_count |-> Len(serverDoc),
     pages |-> [k \in 1 .. Len(serverDoc) |->
                   [id |-> SnapshotId("document?types=" \o types, serverVersion, k - 1),
                    version |-> serverVersion, page_index |-> k - 1,
                    elements |-> ElementsOfTypes(serverDoc[k], types)]]]

\* a document snapshot call that keeps what it fetched in the document slot
GetDocumentSnapshotOfTypesStoring(c, types, ok) ==
    LET got == GetDocumentSnapshot(c, ok)
    IN  Outcome([c EXCEPT !.document_snapshot = got.value], got.raised, got.value,
                got.requests)

\* get_document_snapshot(types)
GetDocumentSnapshotOfTypes(c, types, ok) ==
    IF TruthyName(types)
    THEN IF ok
         THEN Outcome(c, "", Some(ServerDocumentSnapshotOfTypes(Get(types))),
                      <<"GET /pdf/document/snapshot">>)
         ELSE Outcome(c, "HttpClientException", None, <<"GET /pdf/document/snapshot">>)
    ELSE GetDocumentSnapshot(c, ok)

\* get_page_snapshot(page_index, types)
GetPageSnapshotOfTypes(c, page_index, types, ok) ==
    IF page_index >= 0 /\ TruthyName(types)
    THEN IF ok
         THEN Outcome(c, "", Some(ServerPageSnapshotOfTypes(page_index, Get(types))),
                      <<"GET /pdf/page/snapshot">>)
         ELSE Outcome(c, "HttpClientException", None, <<"GET /pdf/page/snapshot">>)
    ELSE GetPageSnapshot(c, page_index, ok)

\* the snapshot a public snapshot call returned, as the call's record
ReturnSnapshot(got, elements) ==
    IF got.raised # ""
    THEN Done(got.cache, got.raised, got.requests, 0, NoReturn)
    ELSE Done(got.cache, "", got.requests, 0, ReturnElements(elements, Get(got.value)))

\* get_bytes(): one GET of the session's PDF
GetBytes(c, ok) ==
    IF ok
    THEN Done(c, "", <<"GET /session/pdf">>, 0, [NoReturn EXCEPT !.truthy = TRUE])
    ELSE Done(c, "HttpClientException", <<"GET /session/pdf">>, 0, NoReturn)

\* save(file_path): the path is checked, then get_bytes and the file is written
SavePdf(c, file_path, ok) ==
    IF ~TruthyName(file_path)
    THEN Done(c, "ValidationException", <<>>, 0, NoReturn)
    ELSE LET got == GetBytes(c, ok)
         IN  Done(got.cache, got.raised, got.requests, 0, NoReturn)

\* find_fonts(font_name, font_size)
FindFonts(c, font_name, font_size, ok) ==
    IF ~TruthyName(font_name) \/ font_size <= 0
    THEN Done(c, "ValidationException", <<>>, 0, NoReturn)
    ELSE IF ok
         THEN Done(c, "", <<"GET /font/find">>, 0, [NoReturn EXCEPT !.truthy = TRUE])
         ELSE Done(c, "HttpClientException", <<"GET /font/find">>, 0, NoReturn)

\* register_font(ttf_file)
RegisterFont(c, ttf_file, ok) ==
    IF ~TruthyName(ttf_file)
    THEN Done(c, "ValidationException", <<>>, 0, NoReturn)
    ELSE IF ok
         THEN Done(c, "", <<"POST /font/register">>, 0, [NoReturn EXCEPT !.truthy = TRUE])
         ELSE Done(c, "HttpClientException", <<"POST /font/register">>, 0, NoReturn)

\* get_document_snapshot(types)
GetDocumentSnapshotCall ==
    \E types \in SnapshotTypes, ok \in BOOLEAN :
      \E got \in {GetDocumentSnapshotOfTypes(Cache, types, ok)} :
        \E r \in {ReturnSnapshot(got, IF got.raised = "" THEN AllElements(Get(got.value).pages)
                                      ELSE <<>>)} :
            /\ Complete("get_document_snapshot", [types |-> types], r, None)
            /\ UNCHANGED <<serverDoc, serverVersion>>

\* get_page_snapshot(page_index, types)
GetPageSnapshotCall ==
    \E page_index \in PageIndices, types \in SnapshotTypes :
      \E ok \in PageAnswers(page_index) :
        \E got \in {GetPageSnapshotOfTypes(Cache, page_index, types, ok)} :
          \E r \in {ReturnSnapshot(got, IF got.raised = "" THEN Get(got.value).elements
                                        ELSE <<>>)} :
            /\ Complete("get_page_snapshot", [page_index |-> page_index, types |-> types],
                        r, None)
            /\ UNCHANGED <<serverDoc, serverVersion>>

\* get_bytes()
GetBytesCall ==
    \E ok \in BOOLEAN :
      \E r \in {GetBytes(Cache, ok)} :
        /\ Complete("get_bytes", <<>>, r, None)
        /\ UNCHANGED <<serverDoc, serverVersion>>

\* save(file_path)
SaveCall ==
    \E file_path \in {None, Some("out.pdf")}, ok \in BOOLEAN :
      \E r \in {SavePdf(Cache, file_path, ok)} :
        /\ Complete("save", [file_path |-> file_path], r, None)
        /\ UNCHANGED <<serverDoc, serverVersion>>

\* find_fonts(font_name, font_size)
FindFontsCall ==
    \E font_name \in {None, Some("Arial")}, font_size \in {0, 12}, ok \in BOOLEAN :
      \E r \in {FindFonts(Cache, font_name, font_size, ok)} :
        /\ Complete("find_fonts", [font_name |-> font_name, font_size |-> font_size],
                    r, None)
        /\ UNCHANGED <<serverDoc, serverVersion>>

\* register_font(ttf_file)
RegisterFontCall ==
    \E ttf_file \in {None, Some("ttf")}, ok \in BOOLEAN :
      \E r \in {RegisterFont(Cache, ttf_file, ok)} :
        /\ Complete("register_font", [ttf_file |-> ttf_file], r, None)
        /\ UNCHANGED <<serverDoc, serverVersion>>

PublicNext ==
    \/ Find
    \/ FindFormFields
    \/ Page
    \/ Pages
    \/ Delete
    \/ GetDocumentSnapshotCall
    \/ GetPageSnapshotCall
    \/ GetBytesCall
    \/ SaveCall
    \/ FindFontsCall
    \/ RegisterFontCall

PublicSpec == Init /\ [][PublicNext]_vars

\* ================================================ two threads, one session
\* Two threads call _get_or_fetch_document_snapshot, _get_or_fetch_page_snapshot
\* and a mutation that ends in _invalidate_snapshots on one PDFDancer object.
\* A step is one read or write of a cache attribute, or one request. In lastOp:
\*   synchronized  whether the callers wrap every call in one mutex
\*   lock          the thread holding the mutex (0: free)
\*   threads       per thread: the statement it is at (pc), the page index of its
\*                 call, the snapshot it fetched (local), whether the other
\*                 thread's invalidation had written the document slot when it
\*                 was read (saw_post) and had not yet cleared the page slots
\*                 when they were read (saw_pre), whether the call had a
\*                 document slot to clear (had_document), the exception raised
\*                 and whether the call returned None; a thread that is idle
\*                 keeps nothing of its last call
\*   fetched       the snapshot requests answered at the server's current
\*                 version (kind, page, version)
\*   torn, storm   a call has read a mix of the cache before and after an
\*                 invalidation, raised on a slot that vanished under it or
\*                 returned None; a snapshot has been requested a second time
Threads == {1, 2}

OtherThread(t) == 3 - t

IdleThread ==
    [pc |-> "idle", page_index |-> 0, local |-> None, saw_post |-> FALSE,
     saw_pre |-> FALSE, had_document |-> FALSE, raised |-> "", returned_none |-> FALSE]

\* a test that finds the document slot absent whatever it holds
DocumentSlotAlwaysAbsent(slot) == TRUE

\* self._document_snapshot is None
DocumentSlotAbsent(slot) == IsNone(slot)

\* the thread may take a step: without the mutex always, with it when it holds
\* the mutex, and it may begin a call when the mutex is free
MayStep(t) == ~lastOp.synchronized \/ lastOp.lock = t

MayBegin(t) == ~lastOp.synchronized \/ lastOp.lock = 0

\* the other thread is between the two writes of _invalidate_snapshots
OtherInvalidating(t) == lastOp.threads[OtherThread(t)].pc = "invalidate_clear"

\* the thread moves on within its call
Goes(t, thread) ==
    /\ lastOp' = [lastOp EXCEPT !.threads[t] = thread,
                                !.torn = @ \/ (thread.saw_post /\ thread.saw_pre)]
    /\ UNCHANGED <<serverDoc, serverVersion>>

\* the thread's call returns or raises: the mutex is released
Ends(t, thread, torn) ==
    /\ lastOp' = [lastOp EXCEPT !.threads[t] = IdleThread,
                                !.lock = 0,
                                !.torn = @ \/ torn \/ (thread.saw_post /\ thread.saw_pre)]
    /\ UNCHANGED <<serverDoc, serverVersion>>

ThreadInit ==
    /\ document_snapshot = None
    /\ page_snapshots = <<>>
    /\ serverDoc \in {d \in Docs : d[1][1] = ParaHello /\ Len(d) = MaxPages}
    /\ serverVersion = 0
    /\ \E synchronized \in BOOLEAN :
          lastOp = [op |-> "threads", synchronized |-> synchronized, lock |-> 0,
                    threads |-> [t \in Threads |-> IdleThread],
                    fetched |-> {}, torn |-> FALSE, storm |-> FALSE]

\* a thread calls _get_or_fetch_document_snapshot, _get_or_fetch_page_snapshot(0)
\* or a mutation, taking the mutex first when the callers use one
ThreadCalls(t) ==
    /\ lastOp.threads[t].pc = "idle"
    /\ MayBegin(t)
    /\ \E pc \in {"document_test", "page_test"}
               \cup (IF serverVersion < MaxMutations THEN {"mutate"} ELSE {}) :
          lastOp' = [lastOp EXCEPT !.threads[t] = [IdleThread EXCEPT !.pc = pc],
                                   !.lock = IF lastOp.synchronized THEN t ELSE 0]
    /\ UNCHANGED <<document_snapshot, page_snapshots, serverDoc, serverVersion>>

\* _get_or_fetch_document_snapshot: if self._document_snapshot is None
DocumentTest(t) ==
    /\ lastOp.threads[t].pc = "document_test"
    /\ MayStep(t)
    /\ Goes(t, [lastOp.threads[t] EXCEPT
                   !.pc = IF DocumentSlotAbsent(document_snapshot)
                          THEN "document_fetch" ELSE "document_return",
                   !.saw_post = /\ IsNone(document_snapshot)
                                /\ OtherInvalidating(t)
                                /\ lastOp.threads[OtherThread(t)].had_document])
    /\ UNCHANGED <<document_snapshot, page_snapshots>>

\* ... self.get_document_snapshot(): the request is answered or fails
DocumentFetch(t) ==
    /\ lastOp.threads[t].pc = "document_fetch"
    /\ MayStep(t)
    /\ \E ok \in BOOLEAN :
        \E got \in {GetDocumentSnapshot(Cache, ok)} :
          IF got.raised # ""
          THEN Ends(t, [lastOp.threads[t] EXCEPT !.raised = got.raised], FALSE)
          ELSE /\ lastOp' =
                    [lastOp EXCEPT !.threads[t].pc = "document_store",
                                   !.threads[t].local = got.value,
                                   !.fetched = @ \cup {Get(got.value).id},
                                   !.storm = @ \/ Get(got.value).id \in lastOp.fetched]
               /\ UNCHANGED <<serverDoc, serverVersion>>
    /\ UNCHANGED <<document_snapshot, page_snapshots>>

\* self._document_snapshot = ...
DocumentStore(t) ==
    /\ lastOp.threads[t].pc = "document_store"
    /\ MayStep(t)
    /\ document_snapshot' = lastOp.threads[t].local
    /\ Goes(t, [lastOp.threads[t] EXCEPT !.pc = "document_fill"])
    /\ UNCHANGED page_snapshots

\* for i, page_snapshot in enumerate(self._document_snapshot.pages): the page
\* slots that are not present are filled; a slot set to None in between has no
\* pages
DocumentFill(t) ==
    /\ lastOp.threads[t].pc = "document_fill"
    /\ MayStep(t)
    /\ IF IsNone(document_snapshot)
       THEN /\ Ends(t, [lastOp.threads[t] EXCEPT !.raised = "AttributeError"], TRUE)
            /\ UNCHANGED page_snapshots
       ELSE /\ page_snapshots' = FillMissingPages(page_snapshots, Get(document_snapshot))
            /\ Goes(t, [lastOp.threads[t] EXCEPT
                           !.pc = "document_return",
                           !.saw_pre = OtherInvalidating(t) /\ page_snapshots # <<>>])
    /\ UNCHANGED document_snapshot

\* return self._document_snapshot
DocumentReturn(t) ==
    /\ lastOp.threads[t].pc = "document_return"
    /\ MayStep(t)
    /\ Ends(t, [lastOp.threads[t] EXCEPT !.returned_none = IsNone(document_snapshot)],
            IsNone(document_snapshot))
    /\ UNCHANGED <<document_snapshot, page_snapshots>>

\* _get_or_fetch_page_snapshot: if page_index in self._page_snapshots
PageTest(t) ==
    /\ lastOp.threads[t].pc = "page_test"
    /\ MayStep(t)
    /\ Goes(t, [lastOp.threads[t] EXCEPT
                   !.pc = IF lastOp.threads[t].page_index \in DOMAIN page_snapshots
                          THEN "page_hit" ELSE "page_document"])
    /\ UNCHANGED <<document_snapshot, page_snapshots>>

\* return self._page_snapshots[page_index]: after the test (page_hit) or after
\* the store (page_return); a slot cleared in between is a KeyError
PageReturn(t) ==
    /\ lastOp.threads[t].pc \in {"page_hit", "page_return"}
    /\ MayStep(t)
    /\ IF lastOp.threads[t].page_index \in DOMAIN page_snapshots
       THEN Ends(t, lastOp.threads[t], FALSE)
       ELSE Ends(t, [lastOp.threads[t] EXCEPT !.raised = "KeyError"], TRUE)
    /\ UNCHANGED <<document_snapshot, page_snapshots>>

\* if self._document_snapshot is not None
PageDocumentTest(t) ==
    /\ lastOp.threads[t].pc = "page_document"
    /\ MayStep(t)
    /\ Goes(t, [lastOp.threads[t] EXCEPT
                   !.pc = IF IsSome(document_snapshot) THEN "page_copy" ELSE "page_fetch"])
    /\ UNCHANGED <<document_snapshot, page_snapshots>>

\* if 0 <= page_index < len(self._document_snapshot.pages): the page of the
\* document snapshot is stored and returned
PageCopy(t) ==
    /\ lastOp.threads[t].pc = "page_copy"
    /\ MayStep(t)
    /\ LET page_index == lastOp.threads[t].page_index
       IN  IF IsNone(document_snapshot)
           THEN /\ Ends(t, [lastOp.threads[t] EXCEPT !.raised = "AttributeError"], TRUE)
                /\ UNCHANGED page_snapshots
           ELSE IF 0 <= page_index /\ page_index < Len(Get(document_snapshot).pages)
           THEN /\ page_snapshots' =
                       Put(page_snapshots, page_index,
                           Get(document_snapshot).pages[page_index + 1])
                /\ Ends(t, lastOp.threads[t], FALSE)
           ELSE /\ Goes(t, [lastOp.threads[t] EXCEPT !.pc = "page_fetch"])
                /\ UNCHANGED page_snapshots
    /\ UNCHANGED document_snapshot

\* ... self.get_page_snapshot(page_index): the request is answered or fails
PageFetch(t) ==
    /\ lastOp.threads[t].pc = "page_fetch"
    /\ MayStep(t)
    /\ \E ok \in PageAnswers(lastOp.threads[t].page_index) :
        \E got \in {GetPageSnapshot(Cache, lastOp.threads[t].page_index, ok)} :
          IF got.raised # ""
          THEN Ends(t, [lastOp.threads[t] EXCEPT !.raised = got.raised], FALSE)
          ELSE /\ lastOp' =
                    [lastOp EXCEPT !.threads[t].pc = "page_store",
                                   !.threads[t].local = got.value,
                                   !.fetched = @ \cup {Get(got.value).id},
                                   !.storm = @ \/ Get(got.value).id \in lastOp.fetched]
               /\ UNCHANGED <<serverDoc, serverVersion>>
    /\ UNCHANGED <<document_snapshot, page_snapshots>>

\* self._page_snapshots[page_index] = ...
PageStore(t) ==
    /\ lastOp.threads[t].pc = "page_store"
    /\ MayStep(t)
    /\ page_snapshots' = Put(page_snapshots, lastOp.threads[t].page_index,
                             Get(lastOp.threads[t].local))
    /\ Goes(t, [lastOp.threads[t] EXCEPT !.pc = "page_return"])
    /\ UNCHANGED document_snapshot

\* a mutation: the server accepts the request, then _invalidate_snapshots runs
Mutate(t) ==
    /\ lastOp.threads[t].pc = "mutate"
    /\ MayStep(t)
    /\ serverVersion' = serverVersion + 1
    /\ lastOp' = [lastOp EXCEPT !.threads[t].pc = "invalidate_document",
                                !.fetched = {}]
    /\ UNCHANGED <<document_snapshot, page_snapshots, serverDoc>>

\* an invalidation that leaves the document slot as it is
InvalidateDocumentKeeping(t) ==
    /\ lastOp.threads[t].pc = "invalidate_document"
    /\ MayStep(t)
    /\ document_snapshot' = document_snapshot
    /\ Goes(t, [lastOp.threads[t] EXCEPT !.pc = "invalidate_clear",
                                         !.had_document = IsSome(document_snapshot)])
    /\ UNCHANGED page_snapshots

\* _invalidate_snapshots: self._document_snapshot = None
InvalidateDocument(t) ==
    /\ lastOp.threads[t].pc = "invalidate_document"
    /\ MayStep(t)
    /\ document_snapshot' = None
    /\ Goes(t, [lastOp.threads[t] EXCEPT !.pc = "invalidate_clear",
                                         !.had_document = IsSome(document_snapshot)])
    /\ UNCHANGED page_snapshots

\* _invalidate_snapshots: self._page_snapshots.clear()
InvalidateClear(t) ==
    /\ lastOp.threads[t].pc = "invalidate_clear"
    /\ MayStep(t)
    /\ page_snapshots' = <<>>
    /\ Ends(t, lastOp.threads[t], FALSE)
    /\ UNCHANGED document_snapshot

ThreadNext ==
    \E t \in Threads :
        \/ ThreadCalls(t)
        \/ DocumentTest(t)
        \/ DocumentFetch(t)
        \/ DocumentStore(t)
        \/ DocumentFill(t)
        \/ DocumentReturn(t)
        \/ PageTest(t)
        \/ PageReturn(t)
        \/ PageDocumentTest(t)
        \/ PageCopy(t)
        \/ PageFetch(t)
        \/ PageStore(t)
        \/ Mutate(t)
        \/ InvalidateDocument(t)
        \/ InvalidateClear(t)

ThreadSpec == ThreadInit /\ [][ThreadNext]_vars

\* ================================================== the text-line editor
\* text_line.edit() as the tests of src/tests/e2e/test_text_line_edit.py use it:
\* a context manager whose editor collects a replacement text and, when the
\* block is left without an exception, applies it through _modify_text_line.
LineOne ==
    Element("TEXTLINE_000001", "TEXT_LINE", Some(BoundingRect(10000, 10000, 5000, 1000)),
            Some(<<"O", "n", "e">>), None)
LineTwo ==
    Element("TEXTLINE_000002", "TEXT_LINE", Some(BoundingRect(10000, 20000, 5000, 1000)),
            Some(<<"T", "w", "o">>), None)

\* the texts a line is searched by and replaced with
EditTexts == {<<"O", "n", "e">>, <<"T", "w", "o">>, <<"S", "i", "x">>}

\* text_line.edit(): the session of a selected text line, no edit collected yet
TextLineEdit(text_line) == [text_line |-> text_line, new_text |-> None]

\* editor.replace(text)
EditorReplace(session, text) == [session EXCEPT !.new_text = Some(text)]

\* leaving the with block: apply() when no exception was raised in it, nothing
\* otherwise (the exception goes on to the caller)
EditExit(c, session, exception, answer) ==
    IF exception
    THEN Done(c, "ValueError", <<>>, 0, NoReturn)
    ELSE ModifyTextLine(c, Some(session.text_line.internal_id), session.new_text, answer)

\* the server replaces the text of the line it was asked to modify
ServerReplacesText(doc, internal_id, new_text) ==
    [k \in DOMAIN doc |->
        [j \in DOMAIN doc[k] |->
            IF doc[k][j].internal_id = internal_id
            THEN [doc[k][j] EXCEPT !.text = new_text]
            ELSE doc[k][j]]]

\* the call's record, with the edit session that is open after it
EditRecord(op, args, r, session) ==
    [op |-> op, args |-> args, raised |-> r.raised, requests |-> r.requests,
     invalidations |-> r.invalidations, truthy |-> r.truthy, success |-> r.success,
     elements |-> r.elements, versions |-> r.versions, snapshot |-> r.snapshot,
     page_client |-> None, session |-> session]

EditInit ==
    /\ document_snapshot = None
    /\ page_snapshots = <<>>
    /\ serverDoc = <<<<LineOne, LineTwo>>>>
    /\ serverVersion = 0
    /\ lastOp = EditRecord("open", <<>>, Done(EmptyCache, "", <<>>, 0, NoReturn), None)

\* pdf.page(0).select_text_lines_starting_with(text), outside an edit session
SelectTextLinesStartingWith ==
    /\ IsNone(lastOp.session)
    /\ \E text \in EditTexts, ok \in BOOLEAN :
        \E r \in {FindInSnapshots(Cache, Some("TEXT_LINE"),
                                  Some(WithTextStarts(AtPage(0), text)),
                                  DEFAULT_TOLERANCE, ok)} :
          /\ document_snapshot' = r.cache.document_snapshot
          /\ page_snapshots' = r.cache.page_snapshots
          /\ lastOp' = EditRecord("select_text_lines", [text |-> text], r, None)
    /\ UNCHANGED <<serverDoc, serverVersion>>

\* with text_line.edit() as editor: on the first line selected
EditEnter ==
    /\ lastOp.op = "select_text_lines"
    /\ lastOp.elements # <<>>
    /\ lastOp' = [lastOp EXCEPT !.op = "edit",
                                !.session = Some(TextLineEdit(lastOp.elements[1]))]
    /\ UNCHANGED <<document_snapshot, page_snapshots, serverDoc, serverVersion>>

\* editor.replace(text) inside the block
EditorReplaceCall ==
    /\ IsSome(lastOp.session)
    /\ IsNone(Get(lastOp.session).new_text)
    /\ \E text \in EditTexts :
          lastOp' = [lastOp EXCEPT !.op = "replace",
                                   !.session = Some(EditorReplace(Get(lastOp.session), text))]
    /\ UNCHANGED <<document_snapshot, page_snapshots, serverDoc, serverVersion>>

\* the block is left: normally after a replace, or through an exception
EditExitCall ==
    /\ IsSome(lastOp.session)
    /\ \E exception \in BOOLEAN :
        /\ exception \/ IsSome(Get(lastOp.session).new_text)
        /\ \E answer \in (IF exception THEN {"none"} ELSE MutationAnswers) :
            \E r \in {EditExit(Cache, Get(lastOp.session), exception, answer)} :
              /\ document_snapshot' = r.cache.document_snapshot
              /\ page_snapshots' = r.cache.page_snapshots
              /\ lastOp' = EditRecord("edit_exit",
                                      [text_line |-> Get(lastOp.session).text_line,
                                       new_text |-> Get(lastOp.session).new_text,
                                       exception |-> exception],
                                      r, None)
              /\ IF answer = "true"
                 THEN /\ serverVersion' = serverVersion + 1
                      /\ serverDoc' = ServerReplacesText(
                                          serverDoc,
                                          Get(lastOp.session).text_line.internal_id,
                                          Get(lastOp.session).new_text)
                 ELSE UNCHANGED <<serverDoc, serverVersion>>

EditNext ==
    \/ SelectTextLinesStartingWith
    \/ EditEnter
    \/ EditorReplaceCall
    \/ EditExitCall

EditSpec == EditInit /\ [][EditNext]_vars

\* ================================================ the snapshot requests sent
\* Finds, page() and pages() with one mutation, counting the requests to the two
\* snapshot endpoints since the last invalidation. In lastOp:
\*   document_calls  the requests to GET /pdf/document/snapshot
\*   page_calls      per page index, the requests to GET /pdf/page/snapshot
\*   failed          whether one of these requests has failed; from then on
\*                   nothing is counted until the next invalidation
\* most requests to one endpoint that are counted
MaxCalls == 2

\* the page indices whose requests are counted
CountedPages == 0 .. (MaxPages - 1)

NoCalls ==
    [document_calls |-> 0, page_calls |-> [i \in CountedPages |-> 0], failed |-> FALSE]

\* the counts after a call that sent the requests (a page request is for the
\* page index of the call) and raised or not; an invalidation starts them anew
Counted(calls, r, page_index) ==
    LET document == Len(SelectSeq(r.requests,
                                  LAMBDA q : q = "GET /pdf/document/snapshot"))
        page == Len(SelectSeq(r.requests, LAMBDA q : q = "GET /pdf/page/snapshot"))
    IN  IF r.invalidations > 0
        THEN NoCalls
        ELSE IF calls.failed \/ (r.raised # "" /\ document + page > 0)
        THEN [NoCalls EXCEPT !.failed = TRUE]
        ELSE [document_calls |-> calls.document_calls + document,
              page_calls |-> [i \in CountedPages |->
                                 IF page > 0 /\ page_index = Some(i)
                                 THEN calls.page_calls[i] + page
                                 ELSE calls.page_calls[i]],
              failed |-> FALSE]

\* no count goes beyond MaxCalls
WithinMaxCalls(calls) ==
    /\ calls.document_calls <= MaxCalls
    /\ \A i \in CountedPages : calls.page_calls[i] <= MaxCalls

\* the call's record and the counts after it
CountRecord(op, page_index, r, calls) ==
    [op |-> op, page_index |-> page_index, raised |-> r.raised,
     requests |-> r.requests, calls |-> calls]

\* the call completes and is counted
CountComplete(op, r, page_index) ==
    /\ WithinMaxCalls(Counted(lastOp.calls, r, page_index))
    /\ document_snapshot' = r.cache.document_snapshot
    /\ page_snapshots' = r.cache.page_snapshots
    /\ lastOp' = CountRecord(op, page_index, r, Counted(lastOp.calls, r, page_index))

\* the page index of a position, if it has one
PageIndexOf(position) ==
    IF IsSome(position) THEN Get(position).page_index ELSE None

CountInit ==
    /\ document_snapshot = None
    /\ page_snapshots = <<>>
    /\ serverDoc \in {d \in Docs : d[1][1] = ParaHello}
    /\ serverVersion = 0
    /\ lastOp = CountRecord("open", None, Done(EmptyCache, "", <<>>, 0, NoReturn), NoCalls)

\* find_form_fields(position), and with it every find served from snapshots
CountedFind ==
    \E position \in QueryPositions :
      \E ok \in AnswersFor(position) :
        \E r \in {FindInSnapshots(Cache, Some("FORM_FIELD"), position,
                                  DEFAULT_TOLERANCE, ok)} :
          /\ CountComplete("find_form_fields", r, PageIndexOf(position))
          /\ UNCHANGED <<serverDoc, serverVersion>>

\* page(page_index)
CountedPage ==
    \E page_index \in PageIndices :
      \E ok \in PageAnswers(page_index) :
        \E r \in {PageOf(Cache, page_index, ok)} :
          /\ CountComplete("page", r, Some(page_index))
          /\ UNCHANGED <<serverDoc, serverVersion>>

\* pages()
CountedPagesCall ==
    \E ok \in BOOLEAN :
      \E r \in {PagesOf(Cache, ok)} :
        /\ CountComplete("pages", r, None)
        /\ UNCHANGED <<serverDoc, serverVersion>>

\* delete(object_ref)
CountedDelete ==
    \E object_ref \in Refs :
      \E answer \in AnswersTo(DeleteObject(Cache, object_ref, "raise")) :
        \E r \in {DeleteObject(Cache, object_ref, answer)} :
          /\ CountComplete("delete", r, None)
          /\ ServerApplies(r, answer)

CountNext ==
    \/ CountedFind
    \/ CountedPage
    \/ CountedPagesCall
    \/ CountedDelete

CountSpec == CountInit /\ [][CountNext]_vars

\* ============================================== the overlap test on its own
\* _rects_intersect applied to two rectangles of the grid and a tolerance
\* the rectangle pairs and tolerances of a call: the first rectangle on the line
\* y = 15, the second anywhere on the grid
OverlapInputs ==
    {[rect1 |-> BoundingRect(x1, 15, w1, h1), rect2 |-> BoundingRect(x2, y2, w2, 5),
      tolerance |-> t] :
        x1 \in GridCoordinates, w1 \in {0, 5}, h1 \in {0, 5},
        x2 \in GridCoordinates, y2 \in GridCoordinates, w2 \in {0, 5},
        t \in {0, 5, DEFAULT_TOLERANCE}}

\* the arguments of the coming call
OverlapInit ==
    /\ document_snapshot = None
    /\ page_snapshots = <<>>
    /\ serverDoc = <<<<>>>>
    /\ serverVersion = 0
    /\ \E input \in OverlapInputs :
          lastOp = [op |-> "overlap_input", args |-> input, truthy |-> FALSE]

\* _rects_intersect(rect1, rect2, tolerance)
RectsIntersectCall ==
    /\ lastOp.op = "overlap_input"
    /\ lastOp' = [lastOp EXCEPT
                     !.op = "rects_intersect",
                     !.truthy = RectsIntersect(lastOp.args.rect1, lastOp.args.rect2,
                                               lastOp.args.tolerance)]
    /\ UNCHANGED <<document_snapshot, page_snapshots, serverDoc, serverVersion>>

OverlapNext == RectsIntersectCall

OverlapSpec == OverlapInit /\ [][OverlapNext]_vars

\* ====================================================================== claims
\* the calls that resolve a query
FindOps == {"find", "find_paths", "find_form_fields"}

\* the requests that fetch a snapshot
SnapshotRequests == {"GET /pdf/document/snapshot", "GET /pdf/page/snapshot"}

\* the query of a completed find call goes to the find-by-position endpoint
BypassQuery(args) ==
    /\ args.object_type = Some("PATH")
    /\ IsSome(args.position)
    /\ IsSome(Get(args.position).bounding_rect)

\* the query of a completed find call names a negative page index
NegativePageQuery(args) ==
    /\ IsSome(args.position)
    /\ IsSome(Get(args.position).page_index)
    /\ Get(Get(args.position).page_index) < 0

\* the elements of the document `doc` a query at the position reads
ElementsAt(doc, position) ==
    IF IsSome(position) /\ IsSome(Get(position).page_index)
    THEN doc[Get(Get(position).page_index) + 1]
    ELSE AllElements([k \in 1 .. Len(doc) |-> [elements |-> doc[k]]])

\* ------------------------------------------------------------------------ C1
\* C1 as stated: after a mutation that reported success, the next find call,
\* for any type and position, sends a snapshot request to the transport and its
\* result is read from the post-mutation document.
C1_NextFindFetchesSnapshot ==
    [][(lastOp.success /\ lastOp'.op \in FindOps)
       => /\ \E k \in DOMAIN lastOp'.requests : lastOp'.requests[k] \in SnapshotRequests
          /\ lastOp'.raised = "" => lastOp'.versions = {serverVersion'}]_vars

\* C1 amended: after a mutation that reported success, the next find call never
\* answers from the cache. A PATH query with a bounding rectangle sends the
\* find-by-position request; a query naming a negative page index is rejected
\* before any request; every other query sends exactly one snapshot request
\* and, when it returns, its result is the filter applied to the post-mutation
\* document.
C1_NextFindIsFresh ==
    [][(lastOp.success /\ lastOp'.op \in FindOps)
       => LET args == lastOp'.args
          IN  /\ BypassQuery(args) => lastOp'.requests = <<"POST /pdf/find">>
              /\ (~BypassQuery(args) /\ NegativePageQuery(args))
                    => /\ lastOp'.requests = <<>>
                       /\ lastOp'.raised = "ValidationException"
              /\ (~BypassQuery(args) /\ ~NegativePageQuery(args))
                    => /\ Len(lastOp'.requests) = 1
                       /\ lastOp'.requests[1] \in SnapshotRequests
                       /\ lastOp'.raised = ""
                            => lastOp'.elements =
                                 FilterSnapshotElements(
                                     ElementsAt(serverDoc', args.position),
                                     args.object_type, args.position,
                                     DEFAULT_TOLERANCE)
              /\ lastOp'.raised = "" => lastOp'.versions = {serverVersion'}]_vars

\* a find that fetched a snapshot of a document changed by a mutation and found
\* elements in it
C1_Witness ==
    /\ lastOp.op = "find"
    /\ lastOp.raised = ""
    /\ lastOp.requests = <<"GET /pdf/document/snapshot">>
    /\ serverVersion >= 1
    /\ lastOp.versions = {serverVersion}
    /\ lastOp.elements # <<>>

\* ------------------------------------------------------------------------ C2
\* the mutations that answer with a bare bool
DeclinableOps ==
    {"delete", "delete_page", "move", "move_page", "add", "add_image", "add_paragraph",
     "page_delete", "page_move_to"}

\* C2: when the server declines a delete object, delete page, move object, move
\* page or add object (the call sent its request, the server answered false),
\* the call returns a falsy result, does not invalidate, and the document slot
\* and every page slot hold the same snapshots as before the call.
C2_DeclinedMutationKeepsCache ==
    [][(/\ lastOp'.op \in DeclinableOps
        /\ lastOp'.requests # <<>>
        /\ lastOp'.raised = ""
        /\ serverVersion' = serverVersion)
       => /\ ~lastOp'.truthy
          /\ lastOp'.invalidations = 0
          /\ document_snapshot' = document_snapshot
          /\ page_snapshots' = page_snapshots]_vars

\* a declined delete on a session whose two slots are populated
C2_Witness ==
    /\ lastOp.op = "delete"
    /\ lastOp.requests # <<>>
    /\ lastOp.raised = ""
    /\ ~lastOp.truthy
    /\ IsSome(document_snapshot)
    /\ page_snapshots # <<>>

\* ------------------------------------------------------------------------ C3
\* C3: a change-form-field-value call the server reports as unsuccessful (the
\* call sent its request and returned a falsy result) does not invalidate: the
\* document slot and all page slots are the same after the call as before it.
C3_DeclinedFormFieldChangeKeepsCache ==
    [][(/\ lastOp'.op = "change_form_field"
        /\ lastOp'.requests # <<>>
        /\ lastOp'.raised = ""
        /\ ~lastOp'.truthy)
       => /\ document_snapshot' = document_snapshot
          /\ page_snapshots' = page_snapshots]_vars

\* ------------------------------------------------------------------------ C4
\* C4: modify-paragraph (with a string or with a Paragraph) and modify-text-line
\* invalidate the cache if and only if the returned command result indicates
\* success: with success both slots are cleared, with failure both slots are
\* unchanged; in both cases the command result is returned.
C4_ModifyInvalidatesIffSuccess ==
    [][(/\ lastOp'.op \in {"modify_paragraph", "modify_text_line"}
        /\ lastOp'.requests # <<>>
        /\ lastOp'.raised = "")
       => /\ lastOp'.truthy
          /\ IF lastOp'.success
             THEN /\ lastOp'.invalidations = 1
                  /\ document_snapshot' = None
                  /\ page_snapshots' = <<>>
             ELSE /\ document_snapshot' = document_snapshot
                  /\ page_snapshots' = page_snapshots]_vars

\* ------------------------------------------------------------------------ C5
\* the find call that completed last, made again with the same arguments on the
\* cache it left (the server answering the request, if one is sent, or not)
RepeatFind(ok) ==
    IF lastOp.op = "find"
    THEN FindObjects(Cache, lastOp.args.object_type, lastOp.args.position,
                     DEFAULT_TOLERANCE, ok)
    ELSE IF lastOp.op = "find_paths"
    THEN FindPaths(Cache, lastOp.args.position, DEFAULT_TOLERANCE, ok)
    ELSE FindInSnapshots(Cache, Some("FORM_FIELD"), lastOp.args.position,
                         DEFAULT_TOLERANCE, ok)

\* C5 as stated: in a sequence of find calls with identical arguments and no
\* intervening mutation the transport is invoked at most once: once a find call
\* has returned, of any type and position, the same call made again sends no
\* request.
C5_RepeatedFindSendsNothing ==
    (lastOp.op \in FindOps /\ lastOp.raised = "")
    => /\ Len(lastOp.requests) <= 1
       /\ \A ok \in BOOLEAN : RepeatFind(ok).requests = <<>>

\* C5 amended: a find call sends at most one request, and once a find call that
\* is resolved from snapshots (any query but PATH with a bounding rectangle)
\* has returned, the same call made again sends no request, leaves both slots
\* as they are and returns the same elements from the same snapshot. A PATH
\* query with a bounding rectangle sends its request on every call.
C5_RepeatedFindServedFromCache ==
    lastOp.op \in FindOps
    => /\ Len(lastOp.requests) <= 1
       /\ (lastOp.raised = "" /\ ~BypassQuery(lastOp.args))
            => \A ok \in BOOLEAN :
                 /\ RepeatFind(ok).requests = <<>>
                 /\ RepeatFind(ok).raised = ""
                 /\ RepeatFind(ok).cache = Cache
                 /\ RepeatFind(ok).elements = lastOp.elements
                 /\ RepeatFind(ok).snapshot = lastOp.snapshot

\* a find on a page that fetched the page's snapshot: made again, it is served
\* from the page slot
C5_Witness ==
    /\ lastOp.op = "find"
    /\ lastOp.raised = ""
    /\ lastOp.requests = <<"GET /pdf/page/snapshot">>
    /\ lastOp.elements # <<>>
    /\ IsNone(document_snapshot)
    /\ RepeatFind(TRUE).requests = <<>>

\* ------------------------------------------------------------------------ C6
\* C6: every find for type PATH whose position carries a bounding rectangle,
\* with or without a page index and whatever the cache holds, sends the
\* find-by-position request and no snapshot request, and leaves the document
\* slot and the page slots unchanged.
C6_PathBypass ==
    [][(/\ lastOp'.op \in {"find", "find_paths"}
        /\ lastOp'.args.object_type = Some("PATH")
        /\ IsSome(lastOp'.args.position)
        /\ IsSome(Get(lastOp'.args.position).bounding_rect))
       => /\ lastOp'.requests = <<"POST /pdf/find">>
          /\ lastOp'.invalidations = 0
          /\ document_snapshot' = document_snapshot
          /\ page_snapshots' = page_snapshots]_vars

\* a PATH find at a point of page 0, answered by the server with the path
\* there, on a session whose slots are populated
C6_Witness ==
    /\ lastOp.op = "find"
    /\ lastOp.args.object_type = Some("PATH")
    /\ lastOp.args.position = Some(AtPageCoordinates(0, 10000, 10000))
    /\ lastOp.requests = <<"POST /pdf/find">>
    /\ lastOp.elements = <<PathShape>>
    /\ IsSome(document_snapshot)
    /\ 0 \in DOMAIN page_snapshots

\* ------------------------------------------------------------------------ C7
\* the snapshot was read from the document the server holds now, after every
\* mutation the server has accepted
Fresh(page_snapshot) ==
    /\ page_snapshot.version = serverVersion
    /\ page_snapshot.page_index < Len(serverDoc)
    /\ page_snapshot.elements = serverDoc[page_snapshot.page_index + 1]

\* C7: in sequential use of one session every snapshot held in the document
\* slot or in a page slot was fetched after the most recent mutation the client
\* observed as successful, and no query served from the cache returns data
\* older than that mutation.
C7_CachedSnapshotsAreFresh ==
    /\ IsSome(document_snapshot)
         => /\ Get(document_snapshot).version = serverVersion
            /\ Len(Get(document_snapshot).pages) = Len(serverDoc)
            /\ \A k \in DOMAIN Get(document_snapshot).pages :
                  Fresh(Get(document_snapshot).pages[k])
    /\ \A i \in DOMAIN page_snapshots :
          /\ page_snapshots[i].page_index = i
          /\ Fresh(page_snapshots[i])
    /\ (lastOp.op \in FindOps \cup {"page", "pages"} /\ lastOp.raised = "")
         => lastOp.versions = {serverVersion}

\* a query served from the cache after a mutation the client saw succeed
C7_Witness ==
    /\ serverVersion >= 1
    /\ lastOp.op = "find_form_fields"
    /\ lastOp.raised = ""
    /\ lastOp.requests = <<>>
    /\ lastOp.elements # <<>>
    /\ IsSome(document_snapshot)
    /\ page_snapshots # <<>>

\* ------------------------------------------------------------------------ C8
\* the calls that change the document
MutationOps ==
    DeclinableOps \cup {"new_page", "modify_paragraph", "modify_text_line",
                        "change_form_field"}

\* C8: invalidation clears the document snapshot and the whole page map, and
\* it is performed exactly once within every mutation call the server reports
\* as successful: right after such a call the document slot is absent and the
\* page map is empty.
C8_SuccessfulMutationInvalidatesOnce ==
    /\ \A doc \in {None, Some(ServerDocumentSnapshot)} :
       \A held \in SUBSET (0 .. (Len(serverDoc) - 1)) :
          InvalidateSnapshots(
              [document_snapshot |-> doc,
               page_snapshots |-> [i \in held |-> ServerPageSnapshot("page", i)]])
          = EmptyCache
    /\ (lastOp.op \in MutationOps /\ lastOp.success)
         => /\ lastOp.invalidations = 1
            /\ document_snapshot = None
            /\ page_snapshots = <<>>
    /\ lastOp.invalidations \in {0, 1}
    /\ lastOp.invalidations = 1 => Cache = EmptyCache

\* a page client moved its page: the server reported the move done
C8_Witness ==
    /\ lastOp.op = "page_move_to"
    /\ lastOp.success
    /\ lastOp.requests = <<"PUT /pdf/page/move">>
    /\ lastOp.page_client = Some(PageClientOf(1))
    /\ lastOp.invalidations = 1
    /\ Cache = EmptyCache

ReadsDocument(call) ==
    \/ call.op = "pages"
    \/ /\ call.op \in FindOps
       /\ ~BypassQuery(call.args)
       /\ IsNone(call.args.position) \/ IsNone(Get(call.args.position).page_index)

\* C10: _get_or_fetch_document_snapshot, when the document slot is absent,
\* sends one document-snapshot request, stores the snapshot and fills only the
\* page slots that are not present yet: a page snapshot that was already
\* cached is not overwritten. When the document slot is present it returns the
\* cached snapshot with no request and no change to any slot.
C10_DocumentLookupFirstWriteWins ==
    [][ReadsDocument(lastOp')
       => IF IsNone(document_snapshot)
          THEN /\ lastOp'.requests = <<"GET /pdf/document/snapshot">>
               /\ IF lastOp'.raised = ""
                  THEN /\ IsSome(document_snapshot')
                       /\ Get(document_snapshot').id =
                             SnapshotId("document", serverVersion, -1)
                       /\ lastOp'.snapshot = Some(Get(document_snapshot').id)
                       /\ DOMAIN page_snapshots' =
                             DOMAIN page_snapshots \cup (0 .. (Len(serverDoc) - 1))
                       /\ \A i \in DOMAIN page_snapshots' :
                             page_snapshots'[i] =
                                IF i \in DOMAIN page_snapshots
                                THEN page_snapshots[i]
                                ELSE Get(document_snapshot').pages[i + 1]
                  ELSE /\ document_snapshot' = document_snapshot
                       /\ page_snapshots' = page_snapshots
          ELSE /\ lastOp'.requests = <<>>
               /\ lastOp'.raised = ""
               /\ lastOp'.snapshot = Some(Get(document_snapshot).id)
               /\ document_snapshot' = document_snapshot
               /\ page_snapshots' = page_snapshots]_vars

\* pages() fetched the document snapshot while page 0 was already held from a
\* page request: slot 0 keeps that snapshot, slot 1 is filled from the document
C10_Witness ==
    /\ lastOp.op = "pages"
    /\ lastOp.requests = <<"GET /pdf/document/snapshot">>
    /\ lastOp.raised = ""
    /\ IsSome(document_snapshot)
    /\ DOMAIN page_snapshots = {0, 1}
    /\ page_snapshots[0].id.origin = "page"
    /\ page_snapshots[1] = Get(document_snapshot).pages[2]

\* ----------------------------------------------------------------------- C11
\* a page index argument that is null or negative
BadPageIndex(value) == IsNone(value) \/ Get(value) < 0

\* the completed call is a mutation called with a null or invalid required
\* argument
InvalidArguments(call) ==
    \/ call.op = "delete" /\ IsNone(call.args.object_ref)
    \/ call.op = "delete_page" /\ IsNone(call.args.page_ref)
    \/ call.op = "move" /\ (IsNone(call.args.object_ref) \/ IsNone(call.args.position))
    \/ /\ call.op = "move_page"
       /\ BadPageIndex(call.args.from_page_index) \/ BadPageIndex(call.args.to_page_index)
    \/ call.op = "page_move_to" /\ BadPageIndex(call.args.target_page_index)
    \/ /\ call.op = "add_image"
       /\ \/ IsNone(call.args.image)
          \/ IsNone(call.args.position) /\ IsNone(Get(call.args.image).position)
    \/ /\ call.op = "add_paragraph"
       /\ \/ IsNone(call.args.paragraph)
          \/ IsNone(Get(call.args.paragraph).position)
          \/ BadPageIndex(Get(Get(call.args.paragraph).position).page_index)
    \/ /\ call.op = "modify_paragraph"
       /\ IsNone(call.args.object_ref) \/ call.args.new_paragraph = "None"
    \/ /\ call.op = "modify_text_line"
       /\ IsNone(call.args.object_ref) \/ IsNone(call.args.new_text)
    \/ call.op = "change_form_field" /\ IsNone(call.args.form_field_ref)

\* C11: every mutation (delete object, delete page, move object, move page, add
\* image, add paragraph, modify paragraph, modify text line, change form-field
\* value) called with a null or invalid required argument raises a validation
\* failure, sends no request and leaves both cache slots unchanged.
C11_InvalidArgumentRejected ==
    [][InvalidArguments(lastOp')
       => /\ lastOp'.raised = "ValidationException"
          /\ lastOp'.requests = <<>>
          /\ document_snapshot' = document_snapshot
          /\ page_snapshots' = page_snapshots]_vars

\* ----------------------------------------------------------------------- C12
\* C12: a validation failure is raised only before any network call of the
\* operation: no call that raised a validation failure has sent a request.
C12_ValidationBeforeRequest ==
    lastOp.raised = "ValidationException" => lastOp.requests = <<>>

\* ----------------------------------------------------------------------- C13
\* What each predicate of the queries must select among FilterElements, listed
\* element by element.
\* tagged with the type, a FORM_FIELD query standing for the four form types
Tagged(e, type) ==
    IF type = "FORM_FIELD"
    THEN e \in {FirstName, Agree, RadioFirstname, PlainFirstName}
    ELSE e.type = type

\* the text elements whose text starts with "hello", whatever the case
PrefixHelloElements == {ParaHelloWorld, ParaHelloThere}

\* the text elements whose text matches the pattern "Hello"
PatternHelloElements == {ParaHelloWorld}

\* the elements whose rectangle is within 0.01 of the point (10, 10)
NearTenElements == {ParaHelloWorld, ParaNoText, RadioFirstname, PathShape}

\* the elements whose rectangle is within 0.01 of the point (50, 50)
NearFiftyElements == {ParaHelloThere, FirstName}

\* the form fields named exactly "firstName"
NamedFirstNameElements == {FirstName, PlainFirstName}

\* the element satisfies every active predicate of the query
Satisfies(e, type, position) ==
    /\ Tagged(e, type)
    /\ IsSome(position)
         => LET pos == Get(position)
            IN  /\ pos.text_starts_with \in {Some(TextHello), Some(TextCapitalHello)}
                      => e \in PrefixHelloElements
                /\ pos.text_pattern = Some(TextCapitalHello)
                      => e \in PatternHelloElements
                /\ pos.bounding_rect = Some(BoundingRect(10000, 10000, 0, 0))
                      => e \in NearTenElements
                /\ pos.bounding_rect = Some(BoundingRect(50000, 50000, 0, 0))
                      => e \in NearFiftyElements
                /\ pos.name = Some("firstName") => e \in NamedFirstNameElements

\* the elements a query at the position reads from the server's document of
\* one or two pages: the page's list, or all pages' lists in page order
SourceElements(position) ==
    IF IsSome(position) /\ IsSome(Get(position).page_index)
    THEN serverDoc[Get(Get(position).page_index) + 1]
    ELSE IF Len(serverDoc) = 1 THEN serverDoc[1] ELSE serverDoc[1] \o serverDoc[2]

\* the completed call is a find for a type that was resolved from snapshots
TypedSnapshotFind ==
    /\ lastOp.op = "find"
    /\ IsSome(lastOp.args.object_type)
    /\ ~BypassQuery(lastOp.args)

\* C13: the result of a find resolved from snapshots is exactly the
\* order-preserving subsequence of the source elements that satisfy every
\* active predicate (type, text prefix, text pattern, bounding rectangle,
\* name); the source is the page's element list for a page-scoped query and the
\* concatenation of all pages' lists in page order for a document-wide query.
C13_FindIsOrderedSubsequence ==
    TypedSnapshotFind
    => /\ lastOp.raised = ""
       /\ lastOp.elements =
             SelectSeq(SourceElements(lastOp.args.position),
                       LAMBDA e : Satisfies(e, Get(lastOp.args.object_type),
                                            lastOp.args.position))

\* a document-wide find for paragraphs starting with "hello" over two pages: it
\* drops elements of both pages and keeps one of each, in page order
C13_Witness ==
    /\ lastOp.op = "find"
    /\ serverDoc = <<<<ParaGoodbyeAll, ParaHelloWorld>>, <<ParaHelloThere, FirstName>>>>
    /\ lastOp.args.object_type = Some("PARAGRAPH")
    /\ lastOp.args.position = Some(WithTextStarts(EmptyPosition, TextHello))
    /\ lastOp.elements = <<ParaHelloWorld, ParaHelloThere>>

\* ----------------------------------------------------------------------- C14
\* the position of the query carries no predicate besides a page index
NoPredicate(position) ==
    \/ IsNone(position)
    \/ /\ IsNone(Get(position).text_starts_with)
       /\ IsNone(Get(position).text_pattern)
       /\ IsNone(Get(position).bounding_rect)
       /\ IsNone(Get(position).name)

\* C14: a query for type FORM_FIELD returns every element tagged FORM_FIELD,
\* TEXT_FIELD, CHECK_BOX or RADIO_BUTTON and no element of another type; a
\* query for any other type T returns only elements tagged exactly T, and all
\* of them when no other predicate is given.
C14_FormFieldSupertype ==
    TypedSnapshotFind
    => LET type == Get(lastOp.args.object_type)
           wanted(e) ==
               IF type = "FORM_FIELD"
               THEN e.type \in {"FORM_FIELD", "TEXT_FIELD", "CHECK_BOX", "RADIO_BUTTON"}
               ELSE e.type = type
       IN  /\ \A k \in DOMAIN lastOp.elements : wanted(lastOp.elements[k])
           /\ NoPredicate(lastOp.args.position)
                => lastOp.elements =
                      SelectSeq(SourceElements(lastOp.args.position), wanted)

\* a FORM_FIELD query over a check box, a radio button, a paragraph and a text
\* field returns the three form fields
C14_Witness ==
    /\ lastOp.op = "find"
    /\ serverDoc = <<<<Agree, RadioFirstname>>, <<ParaHelloThere, FirstName>>>>
    /\ lastOp.args.object_type = Some("FORM_FIELD")
    /\ lastOp.args.position = None
    /\ lastOp.elements = <<Agree, RadioFirstname, FirstName>>

\* ----------------------------------------------------------------------- C15
\* the query carries the prefix "hello" or "Hello" and no pattern, rectangle
\* or name
PrefixQuery(position) ==
    /\ IsSome(position)
    /\ Get(position).text_starts_with \in {Some(TextHello), Some(TextCapitalHello)}
    /\ IsNone(Get(position).text_pattern)
    /\ IsNone(Get(position).bounding_rect)
    /\ IsNone(Get(position).name)

Outside(p, low, size) ==
    IF p < low THEN low - p
    ELSE IF p > low + size THEN p - (low + size)
    ELSE 0

\* C16: with tolerance 0.01 the point query (10, 10) keeps an element at
\* (10.005, 9.995) of size 5 x 5 and drops an element at (50, 50) of size
\* 5 x 5; in general a point query keeps every element whose rectangle is
\* within the tolerance of the point (and none that is farther than twice the
\* tolerance on an axis), and an element without bounding rectangle is dropped
\* when the rectangle filter is active.
C16_TolerantPointQuery ==
    lastOp.op = "filter"
    => LET e == lastOp.args.element
           point == Get(lastOp.args.position.bounding_rect)
           t == lastOp.args.tolerance
       IN  /\ lastOp.elements \in {<<>>, <<e>>}
           /\ IsNone(e.bounding_rect) => lastOp.elements = <<>>
           /\ IsSome(e.bounding_rect)
                => LET rect == Get(e.bounding_rect)
                       dx == Outside(point.x, rect.x, rect.width)
                       dy == Outside(point.y, rect.y, rect.height)
                   IN  /\ (dx <= t /\ dy <= t) => lastOp.elements = <<e>>
                       /\ lastOp.elements = <<e>> => (dx <= 2 * t /\ dy <= 2 * t)
           /\ (/\ e.bounding_rect = Some(BoundingRect(10005, 9995, 5000, 5000))
               /\ point = BoundingRect(10000, 10000, 0, 0)
               /\ t = DEFAULT_TOLERANCE)
                => lastOp.elements = <<e>>
           /\ (/\ e.bounding_rect = Some(BoundingRect(50000, 50000, 5000, 5000))
               /\ point = BoundingRect(10000, 10000, 0, 0)
               /\ t = DEFAULT_TOLERANCE)
                => lastOp.elements = <<>>

\* the point (10, 10) asked with tolerance 0.01 keeps the element at
\* (10.005, 9.995), which does not contain the point
C16_Witness ==
    /\ lastOp.op = "filter"
    /\ lastOp.args.element = ImageAt(Some(BoundingRect(10005, 9995, 5000, 5000)))
    /\ lastOp.args.position = PointQuery(10000, 10000)
    /\ lastOp.args.tolerance = DEFAULT_TOLERANCE
    /\ lastOp.elements = <<lastOp.args.element>>

\* ----------------------------------------------------------------------- C17
\* the query carries the name "firstName"
NameQuery(position) ==
    IsSome(position) /\ Get(position).name = Some("firstName")

\* C17: when the predicate carries a field name, an element that passes the
\* other predicates is retained if and only if it is a form-field entity whose
\* name equals the query name exactly (the radio button named "firstname" is
\* dropped by a query for "firstName"); every non-form-field element is
\* dropped.
C17_NameFilter ==
    (TypedSnapshotFind /\ NameQuery(lastOp.args.position))
    => /\ lastOp.elements =
             SelectSeq(SourceElements(lastOp.args.position),
                       LAMBDA e :
                           /\ Tagged(e, Get(lastOp.args.object_type))
                           /\ IsSome(Get(lastOp.args.position).bounding_rect)
                                 => e \in NearFiftyElements
                           /\ e \in NamedFirstNameElements)
       /\ \A k \in DOMAIN lastOp.elements :
             /\ lastOp.elements[k].cls = "FormFieldRef"
             /\ lastOp.elements[k].name = Some("firstName")
       /\ Get(lastOp.args.object_type) \in {"PARAGRAPH", "PATH"}
             => lastOp.elements = <<>>

\* a FORM_FIELD query named "firstName" over the radio button "firstname", a
\* paragraph and the two fields named "firstName": only these two are returned
C17_Witness ==
    /\ lastOp.op = "find"
    /\ serverDoc = <<<<RadioFirstname, PlainFirstName>>, <<ParaHelloThere, FirstName>>>>
    /\ lastOp.args.object_type = Some("FORM_FIELD")
    /\ lastOp.args.position = Some(ByName("firstName"))
    /\ lastOp.elements = <<PlainFirstName, FirstName>>

\* ----------------------------------------------------------------------- C18
\* C18: the generic find called without an object type finds objects of all
\* types: its result is every element of the consulted snapshot that satisfies
\* the position predicate, whatever the element's type.
C18_FindWithoutTypeFindsAll ==
    (lastOp.op = "find" /\ lastOp.args.object_type = None)
    => lastOp.elements =
          SelectSeq(SourceElements(lastOp.args.position),
                    LAMBDA e :
                        IsSome(lastOp.args.position)
                        => LET pos == Get(lastOp.args.position)
                           IN  /\ pos.text_starts_with \in {Some(TextHello), Some(TextCapitalHello)}
                                     => e \in PrefixHelloElements
                               /\ pos.text_pattern = Some(TextCapitalHello)
                                     => e \in PatternHelloElements
                               /\ pos.bounding_rect = Some(BoundingRect(10000, 10000, 0, 0))
                                     => e \in NearTenElements
                               /\ pos.bounding_rect = Some(BoundingRect(50000, 50000, 0, 0))
                                     => e \in NearFiftyElements
                               /\ pos.name = Some("firstName")
                                     => e \in NamedFirstNameElements)

\* ----------------------------------------------------------------------- C19
\* the well-formed element objects and the element each one stands for
ValidElementDatas ==
    {ElementData(ParaHelloWorld), ElementData(FirstName), ElementData(AgreeChecked),
     ElementData(PathShape), CheckboxData}

ElementOf(data) ==
    CASE data = ElementData(ParaHelloWorld) -> ParaHelloWorld
      [] data = ElementData(FirstName) -> FirstName
      [] data = ElementData(PathShape) -> PathShape
      [] data \in {ElementData(AgreeChecked), CheckboxData} -> AgreeChecked

\* the page payload has a page reference and well-formed elements, but for
\* one element with the unrecognized type string
OneUnrecognizedType(page) ==
    /\ IsSome(page.pageRef)
    /\ "elements" \in DOMAIN page
    /\ \E k \in DOMAIN page.elements :
          /\ page.elements[k] = WatermarkData
          /\ \A j \in DOMAIN page.elements \ {k} : page.elements[j] \in ValidElementDatas

\* the elements the well-formed element objects of the page stand for, in
\* their order
OtherElements(page) ==
    LET others == SelectSeq(page.elements, LAMBDA data : data # WatermarkData)
    IN  [k \in DOMAIN others |-> ElementOf(others[k])]

\* C19: parsing a page-snapshot payload in which one element has an
\* unrecognized type string, among otherwise valid elements, succeeds and
\* yields a page snapshot whose element list omits exactly that element and
\* keeps all the others in their order; the same holds for that page inside a
\* document-snapshot payload.
C19_UnrecognizedTypeSkipped ==
    /\ (lastOp.op = "parse_page_snapshot" /\ OneUnrecognizedType(lastOp.args.data))
         => /\ lastOp.raised = ""
            /\ Get(lastOp.snapshot).elements = OtherElements(lastOp.args.data)
    /\ (/\ lastOp.op = "parse_document_snapshot"
        /\ "pages" \in DOMAIN lastOp.args.data
        /\ \A k \in DOMAIN lastOp.args.data.pages : IsSome(lastOp.args.data.pages[k].pageRef))
         => /\ lastOp.raised = ""
            /\ \A k \in DOMAIN lastOp.args.data.pages :
                  OneUnrecognizedType(lastOp.args.data.pages[k])
                  => Get(lastOp.snapshot).pages[k].elements
                        = OtherElements(lastOp.args.data.pages[k])

\* a page payload of a paragraph, an element of type "WATERMARK" and a text
\* field is parsed into the paragraph and the text field
C19_Witness ==
    /\ lastOp.op = "parse_page_snapshot"
    /\ "elements" \in DOMAIN lastOp.args.data
    /\ lastOp.args.data.elements
          = <<ElementData(ParaHelloWorld), WatermarkData, ElementData(FirstName)>>
    /\ lastOp.raised = ""
    /\ Get(lastOp.snapshot).elements = <<ParaHelloWorld, FirstName>>

\* ----------------------------------------------------------------------- C20
\* the element objects whose boundingRect lacks some of its four keys
ShortRectDatas == {ShortRectParagraphData, ShortRectPathData, ShortRectFieldData}

\* C20: an element whose position holds a boundingRect object that does not
\* supply all of x, y, width and height is still retained in the parsed page
\* snapshot, with its bounding rectangle absent: a page payload of well-formed
\* elements and such elements is parsed into one element per element object,
\* in order, those of the short rectangles without bounding rectangle.
C20_ShortRectElementRetained ==
    (/\ lastOp.op = "parse_page_snapshot"
     /\ IsSome(lastOp.args.data.pageRef)
     /\ "elements" \in DOMAIN lastOp.args.data
     /\ \A k \in DOMAIN lastOp.args.data.elements :
           lastOp.args.data.elements[k] \in ValidElementDatas \cup ShortRectDatas)
    => /\ lastOp.raised = ""
       /\ LET datas == lastOp.args.data.elements
              elements == Get(lastOp.snapshot).elements
          IN  /\ Len(elements) = Len(datas)
              /\ \A k \in DOMAIN datas :
                    IF datas[k] \in ShortRectDatas
                    THEN /\ elements[k].internal_id = datas[k].internalId
                         /\ elements[k].type = Get(datas[k].type)
                         /\ elements[k].bounding_rect = None
                    ELSE elements[k] = ElementOf(datas[k])

\* ----------------------------------------------------------------------- C21
\* the payload lacks one of its top-level keys: pageRef or elements for a page
\* snapshot, pageCount or pages for a document snapshot
MissingTopLevelKey(input) ==
    IF input.kind = "page"
    THEN IsNone(input.data.pageRef) \/ "elements" \notin DOMAIN input.data
    ELSE "pageCount" \notin DOMAIN input.data \/ "pages" \notin DOMAIN input.data

\* C21: a document-snapshot or page-snapshot payload that lacks one of its
\* top-level keys is a hard failure: the fetch raises to the caller instead of
\* returning a snapshot, and nothing is stored in the cache.
C21_MissingKeyIsHardFailure ==
    (/\ lastOp.op \in {"get_or_fetch_document_snapshot", "get_or_fetch_page_snapshot"}
     /\ MissingTopLevelKey(lastOp.args))
    => /\ lastOp.raised # ""
       /\ lastOp.snapshot = None
       /\ Cache = EmptyCache

\* ----------------------------------------------------------------------- C22
\* C22: an element whose type string is "CHECKBOX" is parsed as a form-field
\* reference of type CHECK_BOX carrying its name and value, exactly as the
\* same element with the type string "CHECK_BOX" is, and is not dropped; the
\* payload passed by the caller is not modified by the normalization.
C22_CheckboxNormalized ==
    [][(/\ lastOp.op = "payload"
        /\ lastOp.args.kind = "page"
        /\ lastOp'.op = "parse_page_snapshot")
       => /\ lastOp'.args.data = lastOp.args.data
          /\ (/\ IsSome(lastOp.args.data.pageRef)
              /\ "elements" \in DOMAIN lastOp.args.data
              /\ \A k \in DOMAIN lastOp.args.data.elements :
                    lastOp.args.data.elements[k] \in ValidElementDatas)
               => LET datas == lastOp.args.data.elements
                      elements == Get(lastOp'.snapshot).elements
                  IN  /\ Len(elements) = Len(datas)
                      /\ \A k \in DOMAIN datas :
                            datas[k] \in {CheckboxData, ElementData(AgreeChecked)}
                            => /\ elements[k].type = "CHECK_BOX"
                               /\ elements[k].cls = "FormFieldRef"
                               /\ elements[k].name = Some("agree")
                               /\ elements[k].value = Some("Yes")
                               /\ elements[k] = AgreeChecked]_vars

\* the page payload of the check box under "CHECKBOX" and the same check box
\* under "CHECK_BOX" has been parsed into the same form-field reference twice,
\* and still carries "CHECKBOX"
C22_Witness ==
    /\ lastOp.op = "parse_page_snapshot"
    /\ "elements" \in DOMAIN lastOp.args.data
    /\ lastOp.args.data.elements = <<CheckboxData, ElementData(AgreeChecked)>>
    /\ lastOp.raised = ""
    /\ Get(lastOp.snapshot).elements = <<AgreeChecked, AgreeChecked>>

\* ----------------------------------------------------------------------- C23
RECURSIVE IdsAgree(_, _, _, _)
\* the parsed text object and its descendants carry the identifiers of their
\* JSON objects: its own internalId where the object has one, otherwise the
\* inherited identifier; a child at index i inherits "<parent-id>-<i>", where
\* a parent whose identifier is empty counts as having the identifier nameless
IdsAgree(ref, obj_data, inherited, nameless) ==
    LET children_data ==
            IF "children" \in DOMAIN obj_data THEN obj_data.children ELSE <<>>
        parent_id == IF ref.internal_id = "" THEN nameless ELSE ref.internal_id
    IN  /\ ref.internal_id =
              IF "internalId" \in DOMAIN obj_data THEN obj_data.internalId ELSE inherited
        /\ Len(ref.children) = Len(children_data)
        /\ \A k \in DOMAIN children_data :
              IdsAgree(ref.children[k], children_data[k],
                       parent_id \o "-" \o ToString(k - 1), nameless)

\* C23 as stated: when a PARAGRAPH or TEXT_LINE element has children, each
\* child at index i without its own internalId receives "<parent-id>-<i>",
\* recursively with the child's effective identifier as the parent's; a child
\* with its own internalId keeps it; the order of the children is kept.
C23_ChildIdsFromParentId ==
    lastOp.op = "parse_text_object_ref"
    => /\ lastOp.raised = ""
       /\ IdsAgree(Get(lastOp.elements), lastOp.args, "", "")

\* C23, amended: the same, except that under a parent whose effective
\* identifier is empty (a top-level element without internalId) the child at
\* index i receives "child-<i>".
C23_ChildIdsSynthesized ==
    lastOp.op = "parse_text_object_ref"
    => /\ lastOp.raised = ""
       /\ IdsAgree(Get(lastOp.elements), lastOp.args, "", "child")

\* the paragraph PARAGRAPH_000001 with a line of its own identifier and a line
\* without, which holds a nested line without identifier
C23_Witness ==
    /\ lastOp.op = "parse_text_object_ref"
    /\ lastOp.args =
          TextData("PARAGRAPH", Some("PARAGRAPH_000001"),
                   <<TextData("TEXT_LINE", Some("TEXTLINE_000005"), <<>>),
                     TextData("TEXT_LINE", None,
                              <<TextData("TEXT_LINE", None, <<>>)>>)>>)
    /\ Get(lastOp.elements).internal_id = "PARAGRAPH_000001"
    /\ Get(lastOp.elements).children[1].internal_id = "TEXTLINE_000005"
    /\ Get(lastOp.elements).children[2].internal_id = "PARAGRAPH_000001-1"
    /\ Get(lastOp.elements).children[2].children[1].internal_id = "PARAGRAPH_000001-1-0"

\* ----------------------------------------------------------------------- C24
\* C24: a response with the not-found status is surfaced as the font-not-found
\* failure if and only if its payload carries the error field naming that
\* condition; a response with the same status but without that field is
\* surfaced as a generic transport failure; in both cases the failure carries
\* a human-readable message.
C24_NotFoundClassified ==
    (/\ lastOp.op = "make_request"
     /\ IsSome(Head(lastOp.args.answers))
     /\ Get(Head(lastOp.args.answers)).status = 404)
    => LET response == Get(Head(lastOp.args.answers))
           font_error ==
               response.json = "object" /\ response.error = Some("FontNotFoundException")
       IN  /\ lastOp.raised = "FontNotFoundException" <=> font_error
           /\ ~font_error => lastOp.raised = "HttpClientException"
           /\ lastOp.message # ""

\* ----------------------------------------------------------------------- C27
\* the session creation of an open() that got past the checks of its arguments
SessionRequested ==
    /\ lastOp.op = "open"
    /\ IsSome(lastOp.args.token)
    /\ IsSome(lastOp.args.pdf_data)

RateLimited(answer) == IsSome(answer) /\ Get(answer).status = 429

\* how many of the first answers are 429
RECURSIVE LeadingRateLimited(_)
LeadingRateLimited(answers) ==
    IF answers = <<>> \/ ~RateLimited(Head(answers))
    THEN 0
    ELSE 1 + LeadingRateLimited(Tail(answers))

\* C27: when every attempt of the session creation in PDFDancer.open is
\* answered with status 429, the client makes exactly max_retries + 1 = 4
\* attempts and then raises a rate-limit failure that carries the response
\* (and with it its Retry-After value); when a 429 is followed by a successful
\* attempt within the retry budget, the call returns normally.
C27_BoundedRetryOnRateLimit ==
    SessionRequested
    => LET answers == lastOp.args.answers
           limited == LeadingRateLimited(answers)
       IN  /\ limited >= 4
              => /\ Len(lastOp.requests) = 4
                 /\ lastOp.raised = "RateLimitException"
                 /\ lastOp.response = answers[4]
           /\ (/\ limited \in 1 .. 3
               /\ limited < Len(answers)
               /\ IsSome(answers[limited + 1])
               /\ Get(answers[limited + 1]).status = 200
               /\ Get(answers[limited + 1]).text # "")
              => /\ lastOp.raised = ""
                 /\ Len(lastOp.requests) = limited + 1

\* ----------------------------------------------------------------------- C28
\* the delay hint of a 429 response: the integer its Retry-After header holds
RetryAfterHint(answer) ==
    IF Get(answer).retry_after = Some("1") THEN Some(1)
    ELSE IF Get(answer).retry_after = Some("10") THEN Some(10)
    ELSE None

\* C28: before each retry after a 429 response the client sleeps exactly once;
\* the delay is the integer value of the Retry-After header when it is present
\* and parses as an integer, and otherwise an exponential backoff whose
\* successive delays strictly increase.
C28_SleepBeforeEachRetry ==
    (/\ SessionRequested
     /\ \/ LeadingRateLimited(lastOp.args.answers) >= 4
        \/ LeadingRateLimited(lastOp.args.answers) < Len(lastOp.args.answers))
    => LET answers == lastOp.args.answers
           limited == LeadingRateLimited(answers)
           retries == IF limited > 3 THEN 3 ELSE limited
       IN  /\ Len(lastOp.sleeps) = retries
           /\ \A i \in 1 .. retries :
                 IsSome(RetryAfterHint(answers[i]))
                 => lastOp.sleeps[i] = Get(RetryAfterHint(answers[i]))
           /\ \A i, j \in 1 .. retries :
                 (/\ i < j
                  /\ IsNone(RetryAfterHint(answers[i]))
                  /\ IsNone(RetryAfterHint(answers[j])))
                 => lastOp.sleeps[i] < lastOp.sleeps[j]

\* ----------------------------------------------------------------------- C30
\* the call that has just completed is a find resolved from the snapshots
CacheServedFind(op) ==
    /\ op.op \in {"find", "find_paths", "find_form_fields"}
    /\ ~IsPathBypass(op.args.object_type, op.args.position)

\* C30: a cache-served find whose predicate specifies a page index (index 0
\* included) obtains only that page's snapshot through
\* _get_or_fetch_page_snapshot and leaves the document-snapshot slot as it was;
\* a find whose predicate has no page index, or that has no predicate, obtains
\* the document snapshot through _get_or_fetch_document_snapshot, which on an
\* empty cache also fills one page slot per page of the document.
C30_QueryRouting ==
    [][CacheServedFind(lastOp')
       => LET position == lastOp'.args.position
          IN  IF IsSome(position) /\ IsSome(Get(position).page_index)
              THEN LET page_index == Get(Get(position).page_index)
                   IN  /\ document_snapshot' = document_snapshot
                       /\ \A i \in DOMAIN page_snapshots' :
                             IF i \in DOMAIN page_snapshots
                             THEN page_snapshots'[i] = page_snapshots[i]
                             ELSE i = page_index
                       /\ \A k \in DOMAIN lastOp'.requests :
                             lastOp'.requests[k] = "GET /pdf/page/snapshot"
                       /\ lastOp'.raised = ""
                          => /\ page_index \in DOMAIN page_snapshots'
                             /\ lastOp'.snapshot
                                    = Some(page_snapshots'[page_index].id)
              ELSE /\ \A k \in DOMAIN lastOp'.requests :
                         lastOp'.requests[k] = "GET /pdf/document/snapshot"
                   /\ lastOp'.raised = ""
                      => /\ IsSome(document_snapshot')
                         /\ lastOp'.snapshot = Some(Get(document_snapshot').id)
                   /\ (/\ lastOp'.raised = ""
                       /\ document_snapshot = None
                       /\ page_snapshots = <<>>)
                      => /\ DOMAIN page_snapshots'
                                = 0 .. (Get(document_snapshot').page_count - 1)
                         /\ \A i \in DOMAIN page_snapshots' :
                               page_snapshots'[i] = Get(document_snapshot').pages[i + 1]
      ]_vars

\* a find on page 0 has put that page's snapshot into its slot and the document
\* slot is still absent
C30_Witness ==
    /\ lastOp.op = "find"
    /\ lastOp.raised = ""
    /\ ~IsPathBypass(lastOp.args.object_type, lastOp.args.position)
    /\ lastOp.args.position = Some(AtPage(0))
    /\ document_snapshot = None
    /\ 0 \in DOMAIN page_snapshots
    /\ lastOp.snapshot = Some(page_snapshots[0].id)

\* ----------------------------------------------------------------------- C26
\* the calls that resolve through _get_or_fetch_document_snapshot or
\* _get_or_fetch_page_snapshot
LookupCalls == {"find", "find_paths", "find_form_fields", "page", "pages"}

\* the public calls that go to the server without the cache
PublicCalls ==
    {"get_document_snapshot", "get_page_snapshot", "get_bytes", "save", "find_fonts",
     "register_font"}

\* C26: the two cache slots are written only by the fetch-and-store of
\* _get_or_fetch_document_snapshot / _get_or_fetch_page_snapshot and by
\* _invalidate_snapshots: get_document_snapshot and get_page_snapshot (with or
\* without types), get_bytes, save, find_fonts and register_font neither read
\* their result from the slots nor write them, and no call edits a cached
\* snapshot in place.
C26_CacheWrittenOnlyByLookupAndInvalidate ==
    [][/\ Cache' # Cache
          => \/ lastOp'.invalidations > 0 /\ Cache' = EmptyCache
             \/ /\ lastOp'.op \in LookupCalls
                /\ lastOp'.invalidations = 0
                /\ lastOp'.requests # <<>> \/ IsSome(document_snapshot)
                /\ IsSome(document_snapshot) => document_snapshot' = document_snapshot
                /\ \A i \in DOMAIN page_snapshots :
                      /\ i \in DOMAIN page_snapshots'
                      /\ page_snapshots'[i] = page_snapshots[i]
       /\ lastOp'.op \in PublicCalls
          => /\ Cache' = Cache
             /\ lastOp'.raised = "" => lastOp'.requests # <<>>
             /\ lastOp'.versions \subseteq {serverVersion}
       /\ (/\ IsSome(document_snapshot)
           /\ IsSome(document_snapshot')
           /\ Get(document_snapshot').id = Get(document_snapshot).id)
          => document_snapshot' = document_snapshot
       /\ \A i \in DOMAIN page_snapshots \cap DOMAIN page_snapshots' :
             page_snapshots'[i].id = page_snapshots[i].id
             => page_snapshots'[i] = page_snapshots[i]
      ]_vars

\* get_document_snapshot with a types filter has fetched a snapshot from the
\* server while the document slot holds one, and the slot is not the one returned
C26_Witness ==
    /\ lastOp.op = "get_document_snapshot"
    /\ lastOp.args.types = Some("PARAGRAPH")
    /\ lastOp.raised = ""
    /\ lastOp.requests = <<"GET /pdf/document/snapshot">>
    /\ IsSome(document_snapshot)
    /\ lastOp.snapshot # Some(Get(document_snapshot).id)

\* ----------------------------------------------------------------------- C25
\* C25: two threads sharing one session without synchronization can interleave
\* so that a reader observes a mix of the cache before and after the other
\* thread's invalidation (torn read), and so that both fetch the same snapshot
\* (fetch-storm); when every call is wrapped in one mutex neither occurs: no
\* call reads a mix, raises on a slot that vanished or returns None, no
\* snapshot is requested twice, and only the holder of the mutex is inside a
\* call.
C25_MutexExcludesTornReadAndFetchStorm ==
    (lastOp.op = "threads" /\ lastOp.synchronized)
    => /\ ~lastOp.torn
       /\ ~lastOp.storm
       /\ \A t \in Threads : lastOp.threads[t].pc # "idle" => lastOp.lock = t

\* without the mutex: a torn read and a fetch-storm have both happened
C25_Witness ==
    /\ lastOp.op = "threads"
    /\ ~lastOp.synchronized
    /\ lastOp.torn
    /\ lastOp.storm
    /\ \E t \in Threads : lastOp.threads[t].saw_post /\ lastOp.threads[t].saw_pre

\* ----------------------------------------------------------------------- C29
\* the ids of the text lines a find on page 0 now returns for the text
FoundStartingWith(text) ==
    LET found == FindInSnapshots(Cache, Some("TEXT_LINE"),
                                 Some(WithTextStarts(AtPage(0), text)),
                                 DEFAULT_TOLERANCE, TRUE).elements
    IN  {found[k].internal_id : k \in DOMAIN found}

RepeatLookup(op, c, ok) ==
    IF op.op = "find"
    THEN FindObjects(c, op.args.object_type, op.args.position, DEFAULT_TOLERANCE, ok)
    ELSE IF op.op = "find_paths"
    THEN FindPaths(c, op.args.position, DEFAULT_TOLERANCE, ok)
    ELSE IF op.op = "find_form_fields"
    THEN FindInSnapshots(c, Some("FORM_FIELD"), op.args.position, DEFAULT_TOLERANCE, ok)
    ELSE IF op.op = "page"
    THEN PageOf(c, op.args.page_index, ok)
    ELSE PagesOf(c, ok)

\* the answers the server can give to the fetch of the lookup recorded in op
LookupAnswers(op) ==
    IF op.op = "page" THEN PageAnswers(op.args.page_index)
    ELSE IF op.op = "pages" THEN BOOLEAN
    ELSE IF IsPathBypass(op.args.object_type, op.args.position) THEN BOOLEAN
    ELSE AnswersFor(op.args.position)

\* C31: a failed fetch never changes the cache: when the document-snapshot or
\* page-snapshot fetch of a lookup raises (the request fails, or the page index
\* is negative), the failure reaches the caller, the document slot and every
\* page slot are exactly as before the call, nothing is returned, and the same
\* query made again does the same again: it sends the same request (a request
\* the server answers then succeeds) instead of returning a cached failure.
C31_FailedFetchLeavesCache ==
    [][(/\ lastOp'.op \in {"find", "find_paths", "find_form_fields", "page", "pages"}
        /\ lastOp'.raised # "")
       => /\ document_snapshot' = document_snapshot
          /\ page_snapshots' = page_snapshots
          /\ lastOp'.raised \in {"HttpClientException", "ValidationException"}
          /\ lastOp'.elements = <<>>
          /\ IsNone(lastOp'.snapshot)
          /\ LET again == RepeatLookup(lastOp', Cache', FALSE)
             IN  /\ again.raised = lastOp'.raised
                 /\ again.requests = lastOp'.requests
                 /\ again.cache = Cache'
          /\ (lastOp'.requests # <<>> /\ TRUE \in LookupAnswers(lastOp'))
             => LET retried == RepeatLookup(lastOp', Cache', TRUE)
                IN  /\ retried.requests = lastOp'.requests
                    /\ retried.raised = ""
      ]_vars

\* a document-wide find failed in its fetch while page 0 was cached: the page
\* slot is still there and the document slot is still absent
C31_Witness ==
    /\ lastOp.op = "find"
    /\ lastOp.raised = "HttpClientException"
    /\ lastOp.requests = <<"GET /pdf/document/snapshot">>
    /\ document_snapshot = None
    /\ 0 \in DOMAIN page_snapshots

\* ----------------------------------------------------------------------- C32
\* C32: when the network request of a mutation raises, the failure reaches the
\* caller and the cache is left exactly as it was before the call; this holds
\* for delete object, delete page, move object, move page, add object, new
\* page, modify paragraph, modify text line and change form-field value.
C32_FailedMutationKeepsCache ==
    [][(/\ lastOp'.op \in {"delete", "delete_page", "move", "move_page", "add",
                           "new_page", "modify_paragraph", "modify_text_line",
                           "change_form_field"}
        /\ lastOp'.requests # <<>>
        /\ lastOp'.raised = "HttpClientException")
       => /\ document_snapshot' = document_snapshot
          /\ page_snapshots' = page_snapshots
          /\ lastOp'.invalidations = 0
      ]_vars

\* ----------------------------------------------------------------------- C33
\* C33: between two consecutive invalidations the cache only grows: a call that
\* does not invalidate keeps a populated document slot and every populated
\* page slot as they are; a populated document slot is what every later
\* _get_or_fetch_document_snapshot returns, and a populated page slot is what
\* every later _get_or_fetch_page_snapshot for its index returns, without a
\* request; every key of the page map is a non-negative page index.
C33_CacheOnlyGrows ==
    [][/\ lastOp'.invalidations = 0
          => /\ IsSome(document_snapshot) => document_snapshot' = document_snapshot
             /\ \A i \in DOMAIN page_snapshots :
                   /\ i \in DOMAIN page_snapshots'
                   /\ page_snapshots'[i] = page_snapshots[i]
       /\ \A i \in DOMAIN page_snapshots' : i >= 0
       /\ IsSome(document_snapshot')
          => \A ok \in BOOLEAN :
                GetOrFetchDocumentSnapshot(Cache', ok)
                    = Outcome(Cache', "", document_snapshot', <<>>)
       /\ \A i \in DOMAIN page_snapshots' :
             \A ok \in BOOLEAN :
                GetOrFetchPageSnapshot(Cache', i, ok)
                    = Outcome(Cache', "", Some(page_snapshots'[i]), <<>>)
      ]_vars

\* page 0 was fetched on its own, the document snapshot was fetched later, and
\* a lookup of page 0 after that was served by the slot fetched first
C33_Witness ==
    /\ IsSome(document_snapshot)
    /\ 0 \in DOMAIN page_snapshots
    /\ page_snapshots[0].id.origin = "page"
    /\ lastOp.op = "page"
    /\ lastOp.args.page_index = 0
    /\ lastOp.requests = <<>>
    /\ lastOp.snapshot = Some(page_snapshots[0].id)

\* ----------------------------------------------------------------------- C34
\* C34: between two consecutive invalidations, over any sequence of finds,
\* page() and pages() calls in which no fetch fails, the document-snapshot
\* endpoint is called at most once and the page-snapshot endpoint at most once
\* per page index, and once the document snapshot is cached no lookup of a page
\* index inside its page range sends a request.
C34_SnapshotRequestsBounded ==
    /\ ~lastOp.calls.failed
       => /\ lastOp.calls.document_calls <= 1
          /\ \A i \in CountedPages : lastOp.calls.page_calls[i] <= 1
    /\ IsSome(document_snapshot)
       => \A i \in 0 .. (Len(Get(document_snapshot).pages) - 1), ok \in BOOLEAN :
             /\ PageOf(Cache, i, ok).requests = <<>>
             /\ FindInSnapshots(Cache, Some("PARAGRAPH"), Some(AtPage(i)),
                                DEFAULT_TOLERANCE, ok).requests = <<>>

\* with no invalidation in between and no failed fetch, page 0 has been
\* requested once, then the document once, and the last call, a lookup of page
\* 0, sent nothing
C34_Witness ==
    /\ ~lastOp.calls.failed
    /\ lastOp.calls.document_calls = 1
    /\ lastOp.calls.page_calls[0] = 1
    /\ lastOp.op = "page"
    /\ lastOp.page_index = Some(0)
    /\ lastOp.requests = <<>>

\* ----------------------------------------------------------------------- C35
\* the object types and the predicates (positions without a page) of the finds
\* compared; a PATH find with a bounding rectangle is answered by the server
\* for either scope and is not compared
ViewTypes == {Some("PARAGRAPH"), Some("PATH"), Some("FORM_FIELD"), Some("TEXT_FIELD")}

ViewPredicates ==
    {EmptyPosition,
     [EmptyPosition EXCEPT !.bounding_rect = Some(BoundingRect(10000, 10000, 0, 0))],
     WithTextStarts(EmptyPosition, <<"h", "e">>),
     ByName("firstName")}

\* the predicate scoped to page i
ScopedTo(predicate, i) == [predicate EXCEPT !.page_index = Some(i)]

\* the matches of each page of the document snapshot, in page order
RECURSIVE MatchesByPage(_, _, _)
MatchesByPage(pages, object_type, predicate) ==
    IF Len(pages) = 0 THEN <<>>
    ELSE MatchesByPage(SubSeq(pages, 1, Len(pages) - 1), object_type, predicate)
         \o FilterSnapshotElements(pages[Len(pages)].elements, object_type,
                                   Some(predicate), DEFAULT_TOLERANCE)

\* the two finds made one after the other from cache c, the page-scoped one
\* first or second: the document-wide result is made of the matches of each
\* page in page order, and the page-scoped result is the part of it that
\* belongs to page i
ViewsAgree(c, i, object_type, predicate, scoped_first) ==
    LET scoped_position == Some(ScopedTo(predicate, i))
        first == FindObjects(c, object_type,
                             IF scoped_first THEN scoped_position ELSE Some(predicate),
                             DEFAULT_TOLERANCE, TRUE)
        second == FindObjects(first.cache, object_type,
                              IF scoped_first THEN Some(predicate) ELSE scoped_position,
                              DEFAULT_TOLERANCE, TRUE)
        scoped == IF scoped_first THEN first ELSE second
        wide == IF scoped_first THEN second ELSE first
        pages == Get(second.cache.document_snapshot).pages
    IN  /\ scoped.raised = ""
        /\ wide.raised = ""
        /\ i < Len(pages)
        /\ wide.elements = MatchesByPage(pages, object_type, predicate)
        /\ scoped.elements = FilterSnapshotElements(pages[i + 1].elements, object_type,
                                                    Some(predicate), DEFAULT_TOLERANCE)

\* C35: in sequential use, for every page index i within the document, every
\* object type and every predicate, the find scoped to page i returns the same
\* elements in the same order as the document-wide find with the same type and
\* predicate restricted to page i, whichever of the page and document snapshots
\* was fetched first.
C35_ViewsAgree ==
    \A i \in 0 .. (Len(serverDoc) - 1), object_type \in ViewTypes,
       predicate \in ViewPredicates, scoped_first \in BOOLEAN :
        ~IsPathBypass(object_type, Some(predicate))
            => ViewsAgree(Cache, i, object_type, predicate, scoped_first)

\* after a mutation the server accepted, a find scoped to page 0 is served by
\* the page slot that was fetched on its own before the document snapshot
C35_Witness ==
    /\ serverVersion >= 1
    /\ IsSome(document_snapshot)
    /\ 0 \in DOMAIN page_snapshots
    /\ page_snapshots[0].id.origin = "page"
    /\ lastOp.op = "find"
    /\ lastOp.args.position = Some(AtPage(0))
    /\ lastOp.requests = <<>>
    /\ lastOp.elements # <<>>
    /\ lastOp.snapshot = Some(page_snapshots[0].id)

\* ----------------------------------------------------------------------- C36
\* the cache holds a snapshot read before the mutation the server accepted last
HoldsStale ==
    \/ IsSome(document_snapshot) /\ Get(document_snapshot).version < serverVersion
    \/ \E i \in DOMAIN page_snapshots : page_snapshots[i].version < serverVersion

\* no thread is inside a call
AllIdle == \A t \in Threads : lastOp.threads[t].pc = "idle"

\* C36: with two threads on one session and no lock, a snapshot fetch started
\* before the other thread's successful mutation can be stored after that
\* mutation's invalidation; the cache then holds pre-mutation data, which later
\* sequential finds return without a request until the next invalidation. With
\* the calls serialised by a mutex no such snapshot is left behind: the
\* freshness of sequential use is lost through the interleaving only.
C36_StaleStoreOnlyByInterleaving ==
    lastOp.op = "threads" /\ AllIdle
    => /\ lastOp.synchronized => ~HoldsStale
       /\ (IsSome(document_snapshot) /\ Get(document_snapshot).version < serverVersion)
            => \A ok \in BOOLEAN :
                 \E found \in {FindInSnapshots(Cache, Some("PARAGRAPH"), None,
                                               DEFAULT_TOLERANCE, ok)} :
                    /\ found.raised = ""
                    /\ found.requests = <<>>
                    /\ found.versions = {Get(document_snapshot).version}
                    /\ found.cache = Cache
       /\ \A i \in DOMAIN page_snapshots :
            page_snapshots[i].version < serverVersion
            => \A ok \in BOOLEAN :
                 \E found \in {FindInSnapshots(Cache, Some("PARAGRAPH"), Some(AtPage(i)),
                                               DEFAULT_TOLERANCE, ok)} :
                    /\ found.raised = ""
                    /\ found.requests = <<>>
                    /\ found.versions = {page_snapshots[i].version}
                    /\ found.cache = Cache

\* without the mutex both calls have returned, the server has accepted a
\* mutation, and the document slot and a page slot hold what was read before it
C36_Witness ==
    /\ lastOp.op = "threads"
    /\ ~lastOp.synchronized
    /\ AllIdle
    /\ serverVersion >= 1
    /\ IsSome(document_snapshot)
    /\ Get(document_snapshot).version < serverVersion
    /\ \E i \in DOMAIN page_snapshots : page_snapshots[i].version < serverVersion

\* ----------------------------------------------------------------------- C37
\* the gap between the intervals [a, a + m] and [b, b + n] of one axis (0 when
\* they meet)
AxisGap(a, m, b, n) ==
    IF b > a + m THEN b - (a + m)
    ELSE IF a > b + n THEN a - (b + n)
    ELSE 0

\* C37: two rectangles are reported as intersecting exactly when, on each axis,
\* the gap between them is at most twice the tolerance (a gap of exactly twice
\* the tolerance still intersects); the test gives the same answer with its two
\* rectangles exchanged, and rectangles that intersect at one tolerance
\* intersect at every larger one.
C37_OverlapWithinTwiceTolerance ==
    lastOp.op = "rects_intersect"
    => LET rect1 == lastOp.args.rect1
           rect2 == lastOp.args.rect2
           t == lastOp.args.tolerance
           gap_x == AxisGap(rect1.x, rect1.width, rect2.x, rect2.width)
           gap_y == AxisGap(rect1.y, rect1.height, rect2.y, rect2.height)
       IN  /\ lastOp.truthy = (gap_x <= 2 * t /\ gap_y <= 2 * t)
           /\ RectsIntersect(rect2, rect1, t) = lastOp.truthy
           /\ \A larger \in {0, 5, DEFAULT_TOLERANCE, 2 * DEFAULT_TOLERANCE} :
                 (larger >= t /\ lastOp.truthy) => RectsIntersect(rect1, rect2, larger)

\* two rectangles whose gap on the x axis is exactly twice the tolerance, and
\* smaller on the y axis, are reported as intersecting
C37_Witness ==
    /\ lastOp.op = "rects_intersect"
    /\ lastOp.args.tolerance = 5
    /\ AxisGap(lastOp.args.rect1.x, lastOp.args.rect1.width,
               lastOp.args.rect2.x, lastOp.args.rect2.width) = 10
    /\ AxisGap(lastOp.args.rect1.y, lastOp.args.rect1.height,
               lastOp.args.rect2.y, lastOp.args.rect2.height) = 5
    /\ lastOp.args.rect1.width = 5
    /\ lastOp.args.rect2.width = 5
    /\ lastOp.truthy

\* ----------------------------------------------------------------------- C38
\* C38: PageClient.move_to(target): a null or negative target raises a
\* validation failure with no request and no change to the page client; when
\* the page move reports success the page client's page_index and position are
\* those of the target index and the cache is invalidated; when it reports
\* failure or raises, the page client's page_index and position and the cache
\* are unchanged.
C38_MoveToUpdatesOnSuccessOnly ==
    [][lastOp'.op = "page_move_to"
       => LET target == lastOp'.args.target_page_index
              before == PageClientOf(lastOp'.args.page_index)
              after == Get(lastOp'.page_client)
          IN  IF IsNone(target) \/ Get(target) < 0
              THEN /\ lastOp'.raised = "ValidationException"
                   /\ lastOp'.requests = <<>>
                   /\ after = before
                   /\ Cache' = Cache
              ELSE /\ lastOp'.requests = <<"PUT /pdf/page/move">>
                   /\ IF lastOp'.raised = "" /\ lastOp'.truthy
                      THEN /\ after.page_index = Get(target)
                           /\ after.position = AtPage(Get(target))
                           /\ lastOp'.invalidations = 1
                           /\ Cache' = EmptyCache
                      ELSE /\ after = before
                           /\ lastOp'.invalidations = 0
                           /\ Cache' = Cache]_vars

\* the page client of page 0 was moved to index 1 and the move reported success
C38_Witness ==
    /\ lastOp.op = "page_move_to"
    /\ lastOp.args.page_index = 0
    /\ lastOp.args.target_page_index = Some(1)
    /\ lastOp.raised = ""
    /\ lastOp.truthy
    /\ lastOp.invalidations = 1
    /\ lastOp.page_client = Some(PageClientOf(1))
    /\ Cache = EmptyCache

====
